---- MODULE Spec2Model ----
(***************************************************************************)
(* AdGuard VPN GUI: the CLI output parsers (cli.py), and the status        *)
(* reconciliation / background polling of the GTK application (main.py).   *)
(* Texts are TLA+ strings handled character by character with SubSeq, Len  *)
(* and \o, so the parsers are computed the way the Python code computes    *)
(* them.                                                                   *)
(***************************************************************************)
EXTENDS Integers, Sequences, FiniteSets, Bags, TLC

VARIABLES
    text,       \* harness: the text handed to the parser under check
    st,         \* harness: what the function under check returned, or NoResult
    proc,       \* harness: how the spawned process behaves, for the runner
    budget,     \* harness: how often the VPN may still change from outside
                \* and a status fetch may still fail (when limited)
    \* ---- the external CLI and the clock
    vpn,        \* the text `adguardvpn-cli status` prints now
    now,        \* time.time(), in seconds
    \* ---- App attributes (main.py)
    poll_inflight,          \* self._poll_inflight
    quitting,               \* self._quitting
    last_fast_text,         \* self._last_fast_text
    locations_text_cache,   \* self._locations_text_cache
    last_connected,         \* self._last_connected: <<>> until assigned, then <<b>>
    license_fetch_inflight, \* self._license_fetch_inflight
    license_text_cache,     \* self._license_text_cache
    last_license_fetch,     \* self._last_license_fetch
    ui,         \* the widgets: labels, button visibility, tray icon, stores
    \* ---- threads and the GLib main loop
    workers,    \* the running worker threads (a bag)
    idle,       \* callbacks queued with GLib.idle_add, oldest first
    timers,     \* the registered poll timers (GLib.timeout_add_seconds)
    dialog,     \* the open sudo password dialog (its nested main loop), or NoDialog
    gtk_main,   \* Gtk.main(): "running", "quit" once Gtk.main_quit() was called
                \* under an open dialog, "returned" when the process has ended
    \* ---- history, for stating the properties
    off_ui,     \* attributes that a worker thread has written
    shown       \* when the status on display was read: "none" shown yet,
                \* "fresh" (after the VPN last changed), "stale" (before
                \* that), "older" (before that, replacing a fresh one)

(***************************************************************************)
(* Python str primitives used by the parsers.                              *)
(***************************************************************************)
LowerLetters == "abcdefghijklmnopqrstuvwxyz"
UpperLetters == "ABCDEFGHIJKLMNOPQRSTUVWXYZ"
Whitespace == {" ", "\t", "\n", "\r"}

\* index of the first occurrence of the one-character string c in s, 0 if none
RECURSIVE IndexFrom(_, _, _)
IndexFrom(s, c, i) ==
    IF i > Len(s) THEN 0
    ELSE IF SubSeq(s, i, i) = c THEN i
    ELSE IndexFrom(s, c, i + 1)

LowerChar(c) ==
    LET i == IndexFrom(UpperLetters, c, 1)
    IN  IF i = 0 THEN c ELSE SubSeq(LowerLetters, i, i)

UpperChar(c) ==
    LET i == IndexFrom(LowerLetters, c, 1)
    IN  IF i = 0 THEN c ELSE SubSeq(UpperLetters, i, i)

\* str.lower()
RECURSIVE Lower(_)
Lower(s) ==
    IF Len(s) = 0 THEN ""
    ELSE LowerChar(SubSeq(s, 1, 1)) \o Lower(SubSeq(s, 2, Len(s)))

\* str.upper()
RECURSIVE Upper(_)
Upper(s) ==
    IF Len(s) = 0 THEN ""
    ELSE UpperChar(SubSeq(s, 1, 1)) \o Upper(SubSeq(s, 2, Len(s)))

\* str.lstrip() / str.rstrip() / str.strip()
RECURSIVE LStrip(_)
LStrip(s) ==
    IF Len(s) > 0 /\ SubSeq(s, 1, 1) \in Whitespace
    THEN LStrip(SubSeq(s, 2, Len(s)))
    ELSE s

RECURSIVE RStrip(_)
RStrip(s) ==
    IF Len(s) > 0 /\ SubSeq(s, Len(s), Len(s)) \in Whitespace
    THEN RStrip(SubSeq(s, 1, Len(s) - 1))
    ELSE s

Strip(s) == LStrip(RStrip(s))

\* str.startswith(p)
StartsWith(s, p) == Len(s) >= Len(p) /\ SubSeq(s, 1, Len(p)) = p

\* str.find(sub) + 1: position of the first occurrence of sub in s, 0 if none
RECURSIVE FindFrom(_, _, _)
FindFrom(s, sub, i) ==
    IF i + Len(sub) - 1 > Len(s) THEN 0
    ELSE IF SubSeq(s, i, i + Len(sub) - 1) = sub THEN i
    ELSE FindFrom(s, sub, i + 1)

Find(s, sub) == FindFrom(s, sub, 1)

\* sub in s
Contains(s, sub) == Find(s, sub) # 0

\* s.split(sep, 1): a list of one element when sep does not occur, else of two
Split1(s, sep) ==
    LET i == Find(s, sep)
    IN  IF i = 0 THEN <<s>>
        ELSE <<SubSeq(s, 1, i - 1), SubSeq(s, i + Len(sep), Len(s))>>

(***************************************************************************)
(* cli.py: VpnStatus and parse_status                                      *)
(***************************************************************************)
VpnStatus(c, loc, mode, iface) ==
    [connected |-> c, location |-> loc, mode |-> mode, iface |-> iface]

\* "t.split(a,1)[1].split(b,1)[0].strip()" inside try/except: "" when the
\* index [1] raises IndexError
BetweenOrEmpty(t, a, b) ==
    LET p == Split1(t, a)
    IN  IF Len(p) < 2 THEN "" ELSE Strip(Split1(p[2], b)[1])

parse_status_contains(txt) ==
    LET t == Strip(txt)
    IN  IF Contains(Lower(t), "connected")
        THEN VpnStatus(TRUE, "", "", "")
        ELSE VpnStatus(FALSE, "", "", "")

parse_status_rsplit(txt) ==
    LET t == Strip(txt)
    IN  IF StartsWith(Lower(t), "connected to")
        THEN VpnStatus(TRUE,
                       BetweenOrEmpty(t, "Connected to ", " mode"),
                       Upper(BetweenOrEmpty(t, " in ", " mode")),
                       IF Contains(t, "running on ")
                       THEN Strip(Split1(t, "running on ")[2]) ELSE "")
        ELSE VpnStatus(FALSE, "", "", "")

parse_status(txt) ==
    LET t == Strip(txt)
    IN  IF Len(t) = 0 THEN VpnStatus(FALSE, "", "", "")
        ELSE IF StartsWith(Lower(t), "connected to")
        THEN VpnStatus(TRUE,
                       BetweenOrEmpty(t, "Connected to ", " in "),
                       Upper(BetweenOrEmpty(t, " in ", " mode")),
                       IF Contains(t, "running on ")
                       THEN Strip(Split1(t, "running on ")[2]) ELSE "")
        ELSE IF Contains(Lower(t), "disconnected")
        THEN VpnStatus(FALSE, "", "", "")
        ELSE VpnStatus(FALSE, "", "", "")

(***************************************************************************)
(* cli.py: parse_locations                                                 *)
(***************************************************************************)
Digits == "0123456789"

IsSpace(s, i) == SubSeq(s, i, i) \in Whitespace
IsDigit(s, i) == IndexFrom(Digits, SubSeq(s, i, i), 1) # 0

\* str.splitlines(): the lines of s, without their line ends
RECURSIVE SplitLines(_)
SplitLines(s) ==
    IF Len(s) = 0 THEN <<>>
    ELSE LET i == Find(s, "\n")
         IN  IF i = 0 THEN <<s>>
             ELSE <<SubSeq(s, 1, i - 1)>> \o SplitLines(SubSeq(s, i + 1, Len(s)))

\* int(digits)
RECURSIVE ToInt(_)
ToInt(d) ==
    IF Len(d) = 0 THEN 0
    ELSE 10 * ToInt(SubSeq(d, 1, Len(d) - 1))
         + (IndexFrom(Digits, SubSeq(d, Len(d), Len(d)), 1) - 1)

\* last index of the run of whitespace (ws = TRUE) or of non-whitespace
\* characters that starts at i; i - 1 when the run is empty
RECURSIVE RunEnd(_, _, _)
RunEnd(s, i, ws) ==
    IF i <= Len(s) /\ (IsSpace(s, i) <=> ws) THEN RunEnd(s, i + 1, ws) ELSE i - 1

\* first index of the run of digits that ends at i; i + 1 when it is empty
RECURSIVE DigitsStart(_, _)
DigitsStart(s, i) ==
    IF i >= 1 /\ IsDigit(s, i) THEN DigitsStart(s, i - 1) ELSE i + 1

\* first index of the run of whitespace that ends at i; i + 1 when it is empty
RECURSIVE SpacesStart(_, _)
SpacesStart(s, i) ==
    IF i >= 1 /\ IsSpace(s, i) THEN SpacesStart(s, i - 1) ELSE i + 1

\* re.match(r"^(\S+)\s+(.+?)\s{2,}(.+?)\s{2,}(\d+)$", ln): <<>> when the line
\* does not match, else one row <<iso, country, city, ping>> with the groups
\* the backtracking matcher finds first: the first \s+ as long as possible,
\* then group 2 as short as possible, then the first \s{2,} as long as
\* possible, then group 3 as short as possible.
MatchRow(ln) ==
    LET n  == Len(ln)
        i0 == RunEnd(ln, 1, FALSE)              \* (\S+) is ln[1..i0]
        kmax == RunEnd(ln, i0 + 1, TRUE) - i0   \* longest first \s+
        d  == DigitsStart(ln, n)                \* (\d+)$ is ln[d..n]
        w2 == d - 1                             \* the last \s{2,} ends at w2
        w1 == SpacesStart(ln, w2)               \* and starts at w1 or later
        \* start of group 3 when group 2 ends at e2, 0 when impossible
        S3(e2) ==
            IF ~(e2 + 2 <= n /\ IsSpace(ln, e2 + 1) /\ IsSpace(ln, e2 + 2))
            THEN 0
            ELSE LET r == RunEnd(ln, e2 + 1, TRUE)
                 IN  IF r + 1 <= w2 - 2 THEN r + 1
                     ELSE IF w2 - 2 >= e2 + 3 THEN w2 - 2
                     ELSE 0
        Cands == {c \in (1..kmax) \X (1..n) :
                     c[2] >= i0 + c[1] + 1 /\ S3(c[2]) # 0}
        best == CHOOSE c \in Cands :
                    \A o \in Cands :
                        \/ c[1] > o[1]
                        \/ (c[1] = o[1] /\ c[2] <= o[2])
    IN  IF i0 < 1 \/ kmax < 1 \/ d > n \/ w2 - w1 + 1 < 2 \/ Cands = {}
        THEN <<>>
        ELSE LET p2 == i0 + best[1] + 1
                 e2 == best[2]
                 s3 == S3(e2)
                 e3 == IF s3 > w1 - 1 THEN s3 ELSE w1 - 1
             IN  << <<SubSeq(ln, 1, i0),
                      Strip(SubSeq(ln, p2, e2)),
                      Strip(SubSeq(ln, s3, e3)),
                      ToInt(SubSeq(ln, d, n))>> >>

\* the loop of parse_locations over the non-blank, right-stripped lines
RECURSIVE ScanLocations(_, _, _)
ScanLocations(lines, i, started) ==
    IF i > Len(lines) THEN <<>>
    ELSE IF Len(Strip(lines[i])) = 0
         THEN ScanLocations(lines, i + 1, started)
    ELSE LET ln == RStrip(lines[i])
         IN  IF StartsWith(ln, "ISO") THEN ScanLocations(lines, i + 1, TRUE)
             ELSE IF ~started THEN ScanLocations(lines, i + 1, FALSE)
             ELSE IF StartsWith(ln, "You can connect") THEN <<>>
             ELSE MatchRow(ln) \o ScanLocations(lines, i + 1, TRUE)

parse_locations_headerless(txt) == ScanLocations(SplitLines(txt), 1, TRUE)

parse_locations(txt) == ScanLocations(SplitLines(txt), 1, FALSE)

(***************************************************************************)
(* cli.py: _clean_output and the process runners.  What a process prints   *)
(* is a sequence of code points (ord), so that control characters can be   *)
(* told apart; command lines are sequences of strings.                     *)
(***************************************************************************)
\* the classes [0-?], [ -/] and [@-~] of _ANSI_RE
IsParam(c) == 48 <= c /\ c <= 63
IsIntermediate(c) == 32 <= c /\ c <= 47
IsFinal(c) == 64 <= c /\ c <= 126

\* last index of the run of [0-?] (params) or of [ -/] characters that
\* starts at i; i - 1 when the run is empty
RECURSIVE ClassEnd(_, _, _)
ClassEnd(s, i, params) ==
    IF i <= Len(s) /\ (IF params THEN IsParam(s[i]) ELSE IsIntermediate(s[i]))
    THEN ClassEnd(s, i + 1, params)
    ELSE i - 1

\* index of the last character of the match of _ANSI_RE at i, 0 when it does
\* not match there: ESC, "[", then the two greedy runs, then one of [@-~]
\* (the classes are disjoint, so backtracking finds no other match)
AnsiEnd(s, i) ==
    IF ~(i + 1 <= Len(s) /\ s[i] = 27 /\ s[i + 1] = 91) THEN 0
    ELSE IF ClassEnd(s, ClassEnd(s, i + 2, TRUE) + 1, FALSE) + 1 <= Len(s)
            /\ IsFinal(s[ClassEnd(s, ClassEnd(s, i + 2, TRUE) + 1, FALSE) + 1])
         THEN ClassEnd(s, ClassEnd(s, i + 2, TRUE) + 1, FALSE) + 1
         ELSE 0

\* _ANSI_RE.sub("", s), from index i on
RECURSIVE SubAnsi(_, _)
SubAnsi(s, i) ==
    IF i > Len(s) THEN <<>>
    ELSE IF AnsiEnd(s, i) # 0 THEN SubAnsi(s, AnsiEnd(s, i) + 1)
    ELSE <<s[i]>> \o SubAnsi(s, i + 1)

\* ch == "\n" or ch == "\t" or (32 <= ord(ch) <= 0x10FFFF)
Kept(c) == c = 10 \/ c = 9 \/ (32 <= c /\ c <= 1114111)

\* str.isspace for the code points below U+0100
IsSpaceCode(c) == c \in {9, 10, 11, 12, 13, 28, 29, 30, 31, 32, 133, 160}

\* str.strip() on code points
RECURSIVE StripCodes(_)
StripCodes(s) ==
    IF Len(s) = 0 THEN s
    ELSE IF IsSpaceCode(s[1]) THEN StripCodes(Tail(s))
    ELSE IF IsSpaceCode(s[Len(s)]) THEN StripCodes(SubSeq(s, 1, Len(s) - 1))
    ELSE s

\* _clean_output
clean_output(s) ==
    IF Len(s) = 0 THEN <<>>
    ELSE StripCodes(SelectSeq(SubAnsi(s, 1), Kept))

\* str(n) for n >= 0, and for any integer
RECURSIVE Decimal(_)
Decimal(n) ==
    IF n < 10 THEN <<48 + n>> ELSE Decimal(n \div 10) \o <<48 + (n % 10)>>

StrOfInt(n) == IF n < 0 THEN <<45>> \o Decimal(0 - n) ELSE Decimal(n)

\* f"CLI error: {p.returncode}"
GenericMessage(rc) ==
    <<67, 76, 73, 32, 101, 114, 114, 111, 114, 58, 32>> \o StrOfInt(rc)

\* x or y on process output
OrCodes(x, y) == IF Len(x) = 0 THEN y ELSE x

\* how one subprocess.run call ends: the timeout expires, or the process
\* exits with code rc having printed out and err
Attempt(out, err, rc, timed_out) ==
    [out |-> out, err |-> err, rc |-> rc, timed_out |-> timed_out]

\* the end of run, _run_sudo and _run_pkexec alike: subprocess.run raises
\* TimeoutExpired, or the streams are cleaned and a non-zero exit raises
\* CliError(err or out or "CLI error: N")
completed(a) ==
    IF a.timed_out THEN [raised |-> "TimeoutExpired", value |-> <<>>]
    ELSE IF a.rc # 0
    THEN [raised |-> "CliError",
          value |-> OrCodes(clean_output(a.err),
                            OrCodes(clean_output(a.out), GenericMessage(a.rc)))]
    ELSE [raised |-> "none", value |-> clean_output(a.out)]

CLI == "adguardvpn-cli"
NoInput == "<None>"

\* the variables of os.environ handed on by _run_sudo and _pkexec_env
EnvParts == <<"HOME=/home/user", "DISPLAY=:0">>

\* the command line and the standard input of run
run_cmd(args) == [argv |-> <<CLI>> \o args, input |-> NoInput]

\* ... of _run_sudo: the password goes to sudo -S on standard input
run_sudo_cmd(password, args) ==
    [argv |-> <<"sudo", "-S", "-p", "", "env">> \o EnvParts \o <<CLI>> \o args,
     input |-> password \o "\n"]

\* ... of _run_pkexec
run_pkexec_cmd(args) ==
    [argv |-> <<"pkexec", "env">> \o EnvParts \o <<CLI>> \o args,
     input |-> NoInput]

\* cli.connect_location_pw(loc, password), cli.connect_fastest_pw(password)
connect_location_pw(loc, password) ==
    run_sudo_cmd(password, <<"connect", "-l", loc, "-y">>)

connect_fastest_pw(password) ==
    run_sudo_cmd(password, <<"connect", "--fastest", "-y">>)

\* cli.connect_fastest(), cli.connect_location(loc), cli.disconnect()
connect_fastest_cmd == run_pkexec_cmd(<<"connect", "--fastest", "-y">>)

connect_location_cmd(loc) == run_pkexec_cmd(<<"connect", "-l", loc, "-y">>)

disconnect_cmd == run_cmd(<<"disconnect">>)

\* the command a runner of the harness spawns
HarnessCmd(runner) ==
    CASE runner = "run" -> run_cmd(<<"status">>)
      [] runner = "_run_sudo" -> connect_fastest_pw("secret")
      [] runner = "_run_pkexec" -> connect_fastest_cmd

run_proc_stdout_first(p) ==
    [raised |-> completed(p.attempts[1]).raised,
     value |-> IF p.attempts[1].timed_out \/ p.attempts[1].rc = 0
               THEN completed(p.attempts[1]).value
               ELSE OrCodes(clean_output(p.attempts[1].out),
                            OrCodes(clean_output(p.attempts[1].err),
                                    GenericMessage(p.attempts[1].rc))),
     spawned |-> <<HarnessCmd(p.runner)>>]

run_proc_retrying(p) ==
    IF completed(p.attempts[1]).raised = "none"
    THEN [raised |-> "none", value |-> completed(p.attempts[1]).value,
          spawned |-> <<HarnessCmd(p.runner)>>]
    ELSE [raised |-> completed(p.attempts[2]).raised,
          value |-> completed(p.attempts[2]).value,
          spawned |-> <<HarnessCmd(p.runner), HarnessCmd(p.runner)>>]

\* one call of a runner: what it raises or returns, and the processes it
\* has spawned; p.attempts[1] is how the process it spawns ends, and
\* p.attempts[2] how a second one would
run_proc(p) ==
    [raised |-> completed(p.attempts[1]).raised,
     value |-> completed(p.attempts[1]).value,
     spawned |-> <<HarnessCmd(p.runner)>>]

(***************************************************************************)
(* main.py: parse_config, bool_on                                          *)
(***************************************************************************)
\* d[k] = v on a dict kept as a sequence of <<key, value>> pairs in insertion
\* order: an existing key keeps its place and takes the new value
DictSet(d, k, v) ==
    IF \E i \in 1..Len(d) : d[i][1] = k
    THEN [i \in 1..Len(d) |-> IF d[i][1] = k THEN <<k, v>> ELSE d[i]]
    ELSE Append(d, <<k, v>>)

\* d.get(k, default)
DictGet(d, k, default) ==
    IF \E i \in 1..Len(d) : d[i][1] = k
    THEN d[CHOOSE i \in 1..Len(d) : d[i][1] = k][2]
    ELSE default

RECURSIVE ScanConfig(_, _, _)
ScanConfig(lines, i, d) ==
    IF i > Len(lines) THEN d
    ELSE LET ln == Strip(lines[i])
         IN  IF Len(ln) = 0 \/ StartsWith(ln, "Current configuration")
             THEN ScanConfig(lines, i + 1, d)
             ELSE IF Contains(ln, ":")
             THEN LET kv == Split1(ln, ":")
                  IN  ScanConfig(lines, i + 1,
                                 DictSet(d, Lower(Strip(kv[1])), Strip(kv[2])))
             ELSE ScanConfig(lines, i + 1, d)

RECURSIVE ScanConfigFirst(_, _, _)
ScanConfigFirst(lines, i, d) ==
    IF i > Len(lines) THEN d
    ELSE LET ln == Strip(lines[i])
             kv == Split1(ln, ":")
         IN  IF Len(ln) = 0 \/ StartsWith(ln, "Current configuration")
                \/ ~Contains(ln, ":")
                \/ \E j \in 1..Len(d) : d[j][1] = Lower(Strip(kv[1]))
             THEN ScanConfigFirst(lines, i + 1, d)
             ELSE ScanConfigFirst(lines, i + 1,
                                  Append(d, <<Lower(Strip(kv[1])), Strip(kv[2])>>))

parse_config_first_wins(txt) == ScanConfigFirst(SplitLines(txt), 1, <<>>)

\* parse_config: the dict as the sequence of its items, in insertion order
parse_config(txt) == ScanConfig(SplitLines(txt), 1, <<>>)

bool_on_case_sensitive(v) == Strip(v) \in {"on", "true", "yes", "enabled"}

\* bool_on
bool_on(v) == Lower(Strip(v)) \in {"on", "true", "yes", "enabled"}

(***************************************************************************)
(* The external CLI: what each subcommand prints.  The connection state    *)
(* changes when somebody connects or disconnects (the GUI or a terminal);  *)
(* the server lists, exclusions and configuration it reports at one moment *)
(* are one of the data sets in Gens.                                       *)
(***************************************************************************)
Gens == {"a", "b"}

SParis == "Connected to PARIS in TUN mode, running on tun0"
SDisc == "VPN is disconnected"
StatusOutputs == {SParis, SDisc}

Header == "ISO  COUNTRY  CITY  PING ESTIMATE\n"
Footer == "You can connect to a location by running adguardvpn-cli connect -l"

\* list-locations 10
FastOutput(g) ==
    IF g = "a"
    THEN Header \o "DE  Germany  Berlin  15\n" \o Footer
    ELSE Header \o "FR  France  Paris  20\nFR  France  PARIS  99\n" \o Footer

\* list-locations
AllOutput(g) ==
    IF g = "a"
    THEN Header \o "DE  Germany  Berlin  30\nFR  France  Paris  25\nNO  Norway  Oslo  40\n" \o Footer
    ELSE Header \o "DE  Germany  Berlin  31\nFR  Frankreich  Paris  26\n" \o Footer

\* site-exclusions mode
ModeOutput(g) ==
    IF g = "a" THEN "Current exclusion mode: GENERAL"
    ELSE "Mode SELECTIVE (was GENERAL)"

\* site-exclusions show
ExclOutput(g) ==
    IF g = "a" THEN "Exclusions for GENERAL mode:\nexample.com\n"
    ELSE "Exclusions for SELECTIVE mode:\na.org\n\na.org\nb.net"

\* config show
ConfigOutput(g) ==
    IF g = "a"
    THEN "Current configuration:\nMode: TUN\nDNS upstream: default\nChange system DNS: on\nProtocol: auto\n"
    ELSE "Current configuration:\nMode: SOCKS\nDNS upstream: 1.1.1.1\nChange system DNS: off\nProtocol: QUIC\nDebug logging: on\n"

\* the six invocations of refresh_all, in the order of the tuple
RefreshCalls == <<"status", "list-locations 10", "list-locations",
                  "site-exclusions mode", "site-exclusions show", "config show">>

\* what the invocation prints while the CLI reports the data set g
CliOutput(call, g) ==
    CASE call = "status"               -> vpn
      [] call = "list-locations 10"    -> FastOutput(g)
      [] call = "list-locations"       -> AllOutput(g)
      [] call = "site-exclusions mode" -> ModeOutput(g)
      [] call = "site-exclusions show" -> ExclOutput(g)
      [] call = "config show"          -> ConfigOutput(g)

\* how an invocation ends: it returns its output, or it raises (CliError on a
\* non-zero exit, subprocess.TimeoutExpired on a timeout)
Outcomes == {"ok", "CliError"}

(***************************************************************************)
(* The parsers on the texts above, computed once: the handlers below parse *)
(* the same few texts over and over.                                       *)
(***************************************************************************)
ListOutputs ==
    {""} \cup {FastOutput(g) : g \in Gens} \cup {AllOutput(g) : g \in Gens}

KnownStatus == [t \in StatusOutputs |-> parse_status(t)]
KnownLocations == [t \in ListOutputs |-> parse_locations(t)]
KnownConfig == [t \in {ConfigOutput(g) : g \in Gens} |-> parse_config(t)]
KnownLines == [t \in {ExclOutput(g) : g \in Gens} |-> SplitLines(t)]

\* cli.parse_status(txt)
StatusOf(txt) ==
    IF txt \in StatusOutputs THEN KnownStatus[txt] ELSE parse_status(txt)

\* cli.parse_locations(txt)
LocationsOf(txt) ==
    IF txt \in ListOutputs THEN KnownLocations[txt] ELSE parse_locations(txt)

\* parse_config(txt)
ConfigOf(txt) ==
    IF txt \in DOMAIN KnownConfig THEN KnownConfig[txt] ELSE parse_config(txt)

\* txt.splitlines()
LinesOf(txt) ==
    IF txt \in DOMAIN KnownLines THEN KnownLines[txt] ELSE SplitLines(txt)

(***************************************************************************)
(* main.py: display helpers                                                *)
(***************************************************************************)
Dash == "-"                  \* the unknown sentinel (an em dash in the UI)
Unset == "<unset>"           \* an attribute that was never assigned
None == "<None>"

\* getattr(self, "_last_fast_text", "")
GetAttr(v, default) == IF v = Unset THEN default ELSE v

\* x or y, on strings and None
Or(x, y) == IF x = None \/ x = "" THEN y ELSE x

\* _localize_country_city for the languages shown as-is ("en", "de")
localize_country_city(iso, country, city) ==
    <<Or(Strip(country), Upper(Strip(iso))), Strip(city)>>

RECURSIVE FirstMatch(_, _, _)
FirstMatch(rows, loc, i) ==
    IF i > Len(rows) THEN 0
    ELSE IF Lower(Strip(rows[i][3])) = loc THEN i
    ELSE FirstMatch(rows, loc, i + 1)

\* the loop of _country_city_for_location over the parsed rows
CountryCityOfRow(l, rows) ==
    LET i == FirstMatch(rows, l, 1)
    IN  IF l = "" \/ i = 0 THEN <<None, None>>
        ELSE localize_country_city(rows[i][1], rows[i][2], rows[i][3])

\* the loop of _ping_for_location over the parsed rows
PingOfRow(l, rows) ==
    LET i == FirstMatch(rows, l, 1)
    IN  IF l = "" \/ i = 0 THEN None ELSE ToString(rows[i][4])

country_city_case_sensitive(loc, locations_text) ==
    CountryCityOfRow(Strip(Or(loc, "")), LocationsOf(locations_text))

\* App._country_city_for_location
country_city_for_location(loc, locations_text) ==
    CountryCityOfRow(Lower(Strip(Or(loc, ""))), LocationsOf(locations_text))

\* App._ping_for_location; None when no row matches
ping_for_location(loc, locations_text) ==
    PingOfRow(Lower(Strip(Or(loc, ""))), LocationsOf(locations_text))

\* self._t(key) for the language "en"
TitleOf(connected) == IF connected THEN "Connected" ELSE "Disconnected"

CountryCityLine(country, city) ==
    "Country: " \o country \o "   City: " \o city

\* the widgets _render_status sets, given its three lookups: byFast in
\* fast_text, byAll in the cached full list, p the ping found in fast_text
StatusWidgets(u, s, byFast, byAll, p) ==
    LET loc_disp == Or(Or(byFast[2], byAll[2]), Or(s.location, Dash))
        cc == IF byFast[1] = None \/ byFast[1] = "" THEN byAll ELSE byFast
    IN  [u EXCEPT
            !.home_title = TitleOf(s.connected),
            !.btn_connect = ~s.connected,
            !.btn_disconnect = s.connected,
            !.tray = s.connected,
            !.home_sub =
                IF s.connected
                THEN "Connected to " \o loc_disp \o " (mode: " \o Or(s.mode, Dash)
                     \o ", iface: " \o Or(s.iface, Dash) \o ")"
                ELSE "VPN is disconnected",
            !.lbl_current_location =
                IF s.connected THEN Upper(Or(loc_disp, Dash)) ELSE Dash,
            !.lbl_country_city =
                IF Or(cc[1], "") # "" /\ Or(cc[2], "") # ""
                THEN CountryCityLine(cc[1], cc[2])
                ELSE CountryCityLine(Dash, Dash),
            !.lbl_current_ping =
                IF s.connected /\ s.location # ""
                THEN Or(p, Dash)
                ELSE Dash]

render_status_stale_tray(u, s, fast_text, cache) ==
    [StatusWidgets(u, s,
                   country_city_for_location(Or(s.location, ""), fast_text),
                   country_city_for_location(Or(s.location, ""), Or(cache, "")),
                   ping_for_location(s.location, fast_text))
         EXCEPT !.tray = u.tray]

\* App._render_status, up to the license refresh: the widgets afterwards
render_status(u, s, fast_text, cache) ==
    StatusWidgets(u, s,
                  country_city_for_location(Or(s.location, ""), fast_text),
                  country_city_for_location(Or(s.location, ""), Or(cache, "")),
                  ping_for_location(s.location, fast_text))

\* re.search(r"(GENERAL|SELECTIVE)", mode_text): the leftmost token, and
\* GENERAL when there is none
exclusion_mode_general_first(mode_text) ==
    IF Contains(mode_text, "GENERAL") \/ ~Contains(mode_text, "SELECTIVE")
    THEN "GENERAL" ELSE "SELECTIVE"

\* re.search(r"(GENERAL|SELECTIVE)", mode_text): the leftmost match
exclusion_mode(mode_text) ==
    LET g == Find(mode_text, "GENERAL")
        x == Find(mode_text, "SELECTIVE")
    IN  IF x # 0 /\ (g = 0 \/ x < g) THEN "SELECTIVE" ELSE "GENERAL"

RECURSIVE ScanExclusions(_, _)
ScanExclusions(lines, i) ==
    IF i > Len(lines) THEN <<>>
    ELSE LET ln == Strip(lines[i])
         IN  IF Len(ln) = 0 \/ StartsWith(Lower(ln), "exclusions for")
             THEN ScanExclusions(lines, i + 1)
             ELSE <<ln>> \o ScanExclusions(lines, i + 1)

render_exclusions_appending(u, mode_text, show_text) ==
    [u EXCEPT !.excl_mode = exclusion_mode(Or(mode_text, "")),
              !.store_excl = @ \o ScanExclusions(LinesOf(Or(show_text, "")), 1)]

\* App._render_exclusions
render_exclusions(u, mode_text, show_text) ==
    [u EXCEPT !.excl_mode = exclusion_mode(Or(mode_text, "")),
              !.store_excl = ScanExclusions(LinesOf(Or(show_text, "")), 1)]

\* App._render_settings: the settings controls
render_settings(u, cfg_text) ==
    LET cfg == ConfigOf(cfg_text)
        dns == DictGet(cfg, "dns upstream", "")
        proto == Lower(DictGet(cfg, "protocol", "auto"))
        pq == Lower(DictGet(cfg, "post-quantum cryptography", ""))
        ch == Lower(DictGet(cfg, "update channel", "release"))
    IN  [u EXCEPT !.settings =
            [cmb_mode |-> IF Contains(Lower(DictGet(cfg, "mode", "tun")), "socks")
                          THEN "socks" ELSE "tun",
             entry_dns |-> IF StartsWith(Lower(dns), "default") THEN "" ELSE dns,
             sw_change_dns |-> bool_on(DictGet(cfg, "change system dns", "off")),
             sw_crash |-> bool_on(DictGet(cfg, "crash reporting", "off")),
             sw_telemetry |-> bool_on(DictGet(cfg, "send anonymized usage data", "off")),
             cmb_protocol |-> IF Contains(proto, "http2") THEN "http2"
                              ELSE IF Contains(proto, "quic") THEN "quic"
                              ELSE "auto",
             sw_pq |-> Contains(pq, "on") \/ Strip(pq) = "true",
             cmb_update_channel |-> IF Contains(ch, "beta") THEN "beta"
                                    ELSE IF Contains(ch, "nightly") THEN "nightly"
                                    ELSE "release",
             sw_debug |-> Contains(Lower(DictGet(cfg, "debug logging", "")), "on"),
             sw_notify |-> Contains(Lower(DictGet(cfg, "show notifications", "")), "on")],
          !.lbl_settings_out = "Loaded from CLI."]

RECURSIVE StoreRows(_, _)
StoreRows(rows, i) ==
    IF i > Len(rows) THEN <<>>
    ELSE LET r == rows[i]
             d == localize_country_city(r[1], r[2], r[3])
         IN  << <<r[1], d[1], d[2], r[4], r[3]>> >> \o StoreRows(rows, i + 1)

\* App._render_locations: the two list stores
render_locations(u, fast_text, all_text) ==
    [u EXCEPT !.store_fast = StoreRows(LocationsOf(fast_text), 1),
              !.store_all = StoreRows(LocationsOf(all_text), 1)]

\* App.info
info(u, msg, err) == [u EXCEPT !.lbl_info = msg, !.info_err = err]

(***************************************************************************)
(* The application after App.__init__: widgets as built, both poll timers  *)
(* registered, and the first refresh_all running on its worker thread.     *)
(***************************************************************************)
LicenseTtl == 60
StartTime == LicenseTtl          \* the clock is far past the epoch at start
MaxInFlight == 1
Timers == {"status_poll_2s", "status_poll_3s"}

\* a thread: what it runs, how many invocations it has made, their outputs,
\* and whether the VPN has changed since it read the status
Worker(kind) == [kind |-> kind, n |-> 0, res |-> <<>>, stale |-> FALSE]

\* threading.Thread(target=...).start(), and the end of a thread
Started(ws, w) == ws (+) SetToBag({w})
Ended(ws, w) == ws (-) SetToBag({w})

\* GLib.idle_add(cb, arg): res is the result handed to an ok callback (and
\* what the thread had fetched when it raised, which the err callback never
\* sees), e the exception or the text handed over, stale whether the VPN
\* has changed since the status in res was read
Callback(cb, res, e, stale) == [cb |-> cb, res |-> res, e |-> e, stale |-> stale]

\* no password dialog is open
NoDialog == [for |-> "none", loc |-> ""]

InitialUi ==
    [home_title |-> "", btn_connect |-> TRUE, btn_disconnect |-> FALSE,
     tray |-> FALSE, home_sub |-> "", lbl_current_location |-> "",
     lbl_country_city |-> "", lbl_current_ping |-> "", lbl_license |-> "",
     lbl_info |-> "", info_err |-> FALSE,
     store_fast |-> <<>>, store_all |-> <<>>,
     excl_mode |-> "", store_excl |-> <<>>,
     settings |-> [cmb_mode |-> "tun", entry_dns |-> "", sw_change_dns |-> FALSE,
                   sw_crash |-> FALSE, sw_telemetry |-> FALSE,
                   cmb_protocol |-> "auto", sw_pq |-> FALSE,
                   cmb_update_channel |-> "release", sw_debug |-> FALSE,
                   sw_notify |-> FALSE],
     lbl_settings_out |-> "",
     win |-> TRUE]

InitApp ==
    /\ vpn = SDisc
    /\ now = StartTime
    /\ poll_inflight = FALSE
    /\ quitting = FALSE
    /\ last_fast_text = Unset
    /\ locations_text_cache = ""
    /\ last_connected = <<>>
    /\ license_fetch_inflight = FALSE
    /\ license_text_cache = None
    /\ last_license_fetch = 0
    /\ ui = info(InitialUi, "Refreshing...", FALSE)
    /\ workers = Started(EmptyBag, Worker("refresh"))
    /\ idle = <<>>
    /\ timers = Timers
    /\ dialog = NoDialog
    /\ gtk_main = "running"
    /\ off_ui = {}
    /\ shown = "none"

appVars == <<vpn, now, poll_inflight, quitting, last_fast_text,
             locations_text_cache, last_connected, license_fetch_inflight,
             license_text_cache, last_license_fetch, ui, workers, idle,
             timers, dialog, gtk_main, off_ui, shown>>

worldVars == <<vpn, now>>
attrVars == <<poll_inflight, quitting, last_fast_text, locations_text_cache,
              last_connected>>
licenseVars == <<license_fetch_inflight, license_text_cache, last_license_fetch>>
harnessVars == <<text, st, proc, budget>>

(***************************************************************************)
(* The external world                                                      *)
(***************************************************************************)
\* a status that a thread holds or an ok callback carries was read before
\* the VPN changed
Stale(x) ==
    IF Len(x.res) >= 1 /\ ("n" \in DOMAIN x \/ x.cb \in {"poll_ok", "refresh_ok"})
    THEN [x EXCEPT !.stale = TRUE] ELSE x

MarkStale(q) == [i \in 1..Len(q) |-> Stale(q[i])]

RECURSIVE BagOfStale(_, _)
BagOfStale(ws, todo) ==
    IF todo = {} THEN EmptyBag
    ELSE LET w == CHOOSE x \in todo : TRUE
         IN  [k \in {Stale(w)} |-> ws[w]] (+) BagOfStale(ws, todo \ {w})

MarkStaleWorkers(ws) == BagOfStale(ws, BagToSet(ws))

\* a counted event of the environment may still happen, and the count after
\* it has happened
CanSpend(what) == budget.limited => budget[what] > 0

Spent(what) ==
    IF budget.limited THEN [budget EXCEPT ![what] = @ - 1] ELSE budget

\* somebody connects or disconnects from a terminal
VpnChanges(s) ==
    /\ s # vpn
    /\ CanSpend("changes")
    /\ budget' = Spent("changes")
    /\ vpn' = s
    /\ workers' = MarkStaleWorkers(workers)
    /\ idle' = MarkStale(idle)
    /\ shown' = IF shown = "fresh" THEN "stale" ELSE shown
    /\ UNCHANGED <<now, attrVars, licenseVars, ui, timers, off_ui, dialog, gtk_main,
                   text, st, proc>>

(***************************************************************************)
(* Worker threads (run_bg._t and the license worker).  A thread reads the  *)
(* connection state in one step (the status invocation) and queues its     *)
(* callback in a later one, which is the step that ends it.  The refresh   *)
(* thread makes its five other invocations, which read the lists, the      *)
(* exclusions and the configuration, in that later step.                   *)
(***************************************************************************)
\* run_bg(_bg, _ok, _err) of _poll_status: r = cli.status()
PollWorker(w, o) ==
    /\ w.kind = "poll"
    /\ w.n = 0
    /\ o # "ok" => CanSpend("failures")
    /\ budget' = IF o # "ok" THEN Spent("failures") ELSE budget
    /\ IF o # "ok"
       THEN /\ workers' = Ended(workers, w)
            /\ idle' = Append(idle, Callback("poll_err", <<>>, o, FALSE))
       ELSE /\ workers' = Started(Ended(workers, w),
                                  [w EXCEPT !.n = 1, !.res = <<vpn>>])
            /\ idle' = idle
    /\ UNCHANGED <<worldVars, attrVars, licenseVars, ui, timers,
                   off_ui, shown, dialog, gtk_main,
                   text, st, proc>>

\* run_bg._t of _poll_status: GLib.idle_add(ok, r)
PollWorkerReturns(w) ==
    /\ w.kind = "poll"
    /\ w.n = 1
    /\ workers' = Ended(workers, w)
    /\ idle' = Append(idle, Callback("poll_ok", w.res, "", w.stale))
    /\ UNCHANGED <<worldVars, attrVars, licenseVars, ui, timers,
                   off_ui, shown, dialog, gtk_main,
                   harnessVars>>

\* the outputs of the invocations first..last of refresh_all
RECURSIVE Outputs(_, _, _)
Outputs(first, last, g) ==
    IF first > last THEN <<>>
    ELSE <<CliOutput(RefreshCalls[first], g)>> \o Outputs(first + 1, last, g)

\* run_bg of refresh_all: the tuple of six invocations is evaluated left to
\* right, and the first one that raises ends the thread with the err
\* callback.  First step: cli.status()
RefreshWorker(w, o) ==
    /\ w.kind = "refresh"
    /\ w.n = 0
    /\ o # "ok" => CanSpend("failures")
    /\ budget' = IF o # "ok" THEN Spent("failures") ELSE budget
    /\ IF o # "ok"
       THEN /\ workers' = Ended(workers, w)
            /\ idle' = Append(idle, Callback("refresh_err", <<>>, o, FALSE))
       ELSE /\ workers' = Started(Ended(workers, w),
                                  [w EXCEPT !.n = 1, !.res = <<vpn>>])
            /\ idle' = idle
    /\ UNCHANGED <<worldVars, attrVars, licenseVars, ui, timers,
                   off_ui, shown, dialog, gtk_main,
                   text, st, proc>>

\* Second step: invocations 2..6 while the CLI reports the data set g.  One
\* of them raises unless o is "ok"; the status fetched before is then lost
\* with the thread, and is kept here only to say so
RefreshWorkerLists(w, o, g) ==
    /\ w.kind = "refresh"
    /\ w.n = 1
    /\ workers' = Ended(workers, w)
    /\ idle' = Append(idle,
                      IF o = "ok"
                      THEN Callback("refresh_ok",
                                    w.res \o Outputs(2, Len(RefreshCalls), g),
                                    "", w.stale)
                      ELSE Callback("refresh_err", w.res, o, FALSE))
    /\ UNCHANGED <<worldVars, attrVars, licenseVars, ui, timers,
                   off_ui, shown, dialog, gtk_main,
                   harnessVars>>

\* cli.license(): cli.py defines no function license, so the call raises
LicenseOutcomes == {"AttributeError"}

\* worker() of _kick_license_refresh: the thread itself assigns the cache,
\* the timestamp and, in its finally clause, the in-flight flag
LicenseWorker(w, o) ==
    /\ w.kind = "license"
    /\ workers' = Ended(workers, w)
    /\ IF o = "ok"
       THEN /\ license_text_cache' = "Premium"
            /\ last_license_fetch' = now
            /\ idle' = Append(idle, Callback("license_label", <<>>, "License: Premium", FALSE))
            /\ off_ui' = off_ui \cup {"_license_text_cache", "_last_license_fetch",
                                      "_license_fetch_inflight"}
       ELSE /\ UNCHANGED <<license_text_cache, last_license_fetch>>
            /\ idle' = Append(idle, Callback("license_label", <<>>, "License: " \o Dash, FALSE))
            /\ off_ui' = off_ui \cup {"_license_fetch_inflight"}
    /\ license_fetch_inflight' = FALSE
    /\ UNCHANGED <<worldVars, attrVars, ui, timers, shown, dialog, gtk_main,
                   harnessVars>>

(***************************************************************************)
(* The UI thread: timer handlers, idle callbacks and user actions.  Each   *)
(* handler runs to completion before the main loop dispatches the next.    *)
(***************************************************************************)
\* _kick_license_refresh starts a fetch: none is in flight and the cache is
\* missing or older than LicenseTtl
KickStarts ==
    /\ ~license_fetch_inflight
    /\ ~(now - last_license_fetch < LicenseTtl /\ license_text_cache # None)

\* _kick_license_refresh shows the cached text instead
kick_label(u) ==
    IF ~license_fetch_inflight /\ ~KickStarts
    THEN [u EXCEPT !.lbl_license = "License: " \o license_text_cache]
    ELSE u

\* the flag and the threads after _kick_license_refresh
kick_license_refresh ==
    /\ license_fetch_inflight' = (license_fetch_inflight \/ KickStarts)
    /\ workers' = IF KickStarts THEN Started(workers, Worker("license")) ELSE workers
    /\ UNCHANGED <<license_text_cache, last_license_fetch>>

poll_status_unguarded(t) ==
    /\ t \in timers
    /\ poll_inflight' = TRUE
    /\ workers' = Started(workers, Worker("poll"))
    /\ UNCHANGED <<worldVars, quitting, last_fast_text, locations_text_cache,
                   last_connected, licenseVars, ui, idle, timers,
                   off_ui, shown, dialog, gtk_main,
                   harnessVars>>

\* App._poll_status, called by the registered poll timer t whenever its
\* interval has elapsed
poll_status(t) ==
    /\ t \in timers
    /\ IF quitting
       THEN /\ timers' = timers \ {t}
            /\ UNCHANGED <<poll_inflight, workers>>
       ELSE IF poll_inflight
       THEN UNCHANGED <<poll_inflight, workers, timers>>
       ELSE /\ poll_inflight' = TRUE
            /\ workers' = Started(workers, Worker("poll"))
            /\ UNCHANGED timers
    /\ UNCHANGED <<worldVars, quitting, last_fast_text, locations_text_cache,
                   last_connected, licenseVars, ui, idle,
                   off_ui, shown, dialog, gtk_main,
                   harnessVars>>

poll_ok_keep_newer(cb) ==
    LET s == StatusOf(cb.res[1])
    IN  /\ poll_inflight' = FALSE
        /\ IF cb.stale /\ shown = "fresh"
           THEN UNCHANGED <<last_connected, ui, licenseVars, workers>>
           ELSE /\ last_connected' = <<s.connected>>
                /\ ui' = kick_label(render_status(ui, s, GetAttr(last_fast_text, ""),
                                                  locations_text_cache))
                /\ kick_license_refresh
        /\ UNCHANGED <<quitting, last_fast_text, locations_text_cache>>

poll_ok_silent(cb) ==
    /\ poll_inflight' = FALSE
    /\ UNCHANGED <<quitting, last_fast_text, locations_text_cache,
                   last_connected, licenseVars, ui, workers>>

poll_ok_relisting(cb) ==
    LET s == StatusOf(cb.res[1])
    IN  /\ poll_inflight' = FALSE
        /\ last_connected' = <<s.connected>>
        /\ ui' = render_locations(
                     kick_label(render_status(ui, s, GetAttr(last_fast_text, ""),
                                              locations_text_cache)),
                     GetAttr(last_fast_text, ""), "")
        /\ kick_license_refresh
        /\ UNCHANGED <<quitting, last_fast_text, locations_text_cache>>

\* _ok of _poll_status
poll_ok(cb) ==
    LET s == StatusOf(cb.res[1])
    IN  /\ poll_inflight' = FALSE
        /\ last_connected' = <<s.connected>>
        /\ ui' = kick_label(render_status(ui, s, GetAttr(last_fast_text, ""),
                                          locations_text_cache))
        /\ kick_license_refresh
        /\ UNCHANGED <<quitting, last_fast_text, locations_text_cache>>

poll_err_keeps_flag(cb) ==
    UNCHANGED <<poll_inflight, quitting, last_fast_text, locations_text_cache,
                last_connected, licenseVars, ui, workers>>

\* _err of _poll_status
poll_err(cb) ==
    /\ poll_inflight' = FALSE
    /\ UNCHANGED <<quitting, last_fast_text, locations_text_cache,
                   last_connected, licenseVars, ui, workers>>

on_refresh_ok_partial(cb) ==
    LET s == StatusOf(cb.res[1])
        cache == Or(cb.res[3], "")
    IN  /\ locations_text_cache' = cache
        /\ last_fast_text' = cb.res[2]
        /\ last_connected' = <<s.connected>>
        /\ ui' = info(render_locations(
                          kick_label(render_status(ui, s, cb.res[2], cache)),
                          cb.res[2], cb.res[3]),
                      "Done", FALSE)
        /\ kick_license_refresh
        /\ UNCHANGED <<poll_inflight, quitting>>

\* App._on_refresh_ok
on_refresh_ok(cb) ==
    LET s == StatusOf(cb.res[1])
        cache == Or(cb.res[3], "")
    IN  /\ locations_text_cache' = cache
        /\ last_fast_text' = cb.res[2]
        /\ last_connected' = <<s.connected>>
        /\ ui' = info(render_settings(
                          render_exclusions(
                              render_locations(
                                  kick_label(render_status(ui, s, cb.res[2], cache)),
                                  cb.res[2], cb.res[3]),
                              cb.res[4], cb.res[5]),
                          cb.res[6]),
                      "Done", FALSE)
        /\ kick_license_refresh
        /\ UNCHANGED <<poll_inflight, quitting>>

on_refresh_err_clearing(cb) ==
    /\ ui' = info(render_locations(ui, "", ""), "Error: " \o cb.e, TRUE)
    /\ UNCHANGED <<attrVars, licenseVars, workers>>

\* App._on_refresh_err
on_refresh_err(cb) ==
    /\ ui' = info(ui, "Error: " \o cb.e, TRUE)
    /\ UNCHANGED <<attrVars, licenseVars, workers>>

\* GLib.idle_add(self.lbl_license.set_text, ...)
license_label(cb) ==
    /\ ui' = [ui EXCEPT !.lbl_license = cb.e]
    /\ UNCHANGED <<attrVars, licenseVars, workers>>

(***************************************************************************)
(* Connecting, disconnecting and quitting.  A handler that asks for the    *)
(* sudo password and finds none stored runs the dialog's nested main loop  *)
(* (dlg.run()): timers, idle callbacks and the tray menu go on being       *)
(* served, and the handler goes on when the dialog is answered.            *)
(***************************************************************************)
MaxActions == 1
Password == "hunter2"

\* load_config() in _ask_sudo_password: the stored sudo password, None when
\* storing is off or nothing is stored
StoredPasswords == {None, Password}

\* what the user does with the dialog: the button and the entry's text
Answers == {[resp |-> "OK", entry |-> " " \o Password],
            [resp |-> "OK", entry |-> " "],
            [resp |-> "CANCEL", entry |-> Password]}

asked_password_unstripped(a) ==
    IF a.resp = "OK" THEN Or(a.entry, None) ELSE None

\* _ask_sudo_password after dlg.run(): pwd or None
asked_password(a) ==
    IF a.resp = "OK" THEN Or(Strip(a.entry), None) ELSE None

\* the rows of the two location lists, and no row
NoRow == <<>>
RowsShown ==
    {ui.store_fast[i] : i \in 1..Len(ui.store_fast)}
        \cup {ui.store_all[i] : i \in 1..Len(ui.store_all)}

\* (city_real or "").strip() or (iso or "").strip(), of a row [iso, country,
\* city_disp, ping, city_real]; _selected_location gives "" without a row
row_location(row) ==
    IF row = NoRow THEN "" ELSE Or(Strip(row[5]), Strip(row[1]))

\* the thread run_bg starts for a handler: call is the function of cli its
\* fn calls and the arguments in the order of the call, ok and err are the
\* callbacks; loc and pwd record the handler's location and password
Action(kind, call, ok, err, loc, pwd) ==
    [kind |-> kind, n |-> 0, res |-> <<>>, stale |-> FALSE,
     call |-> call, ok |-> ok, err |-> err, loc |-> loc, pwd |-> pwd]

ActionKinds == {"connect", "disconnect", "quit"}

\* the processes the call spawns; cli defines no disconnect_pw, so that
\* call raises AttributeError before anything is spawned
Spawned(call) ==
    CASE call[1] = "connect_fastest"     -> <<connect_fastest_cmd>>
      [] call[1] = "connect_location"    -> <<connect_location_cmd(call[2])>>
      [] call[1] = "connect_location_pw" -> <<connect_location_pw(call[2], call[3])>>
      [] call[1] = "disconnect"          -> <<disconnect_cmd>>
      [] call[1] = "disconnect_pw"       -> <<>>

\* how the call can end: sudo -S rejects anything but the password, and
\* every runner raises on a non-zero exit and on its timeout
ActionOutcomes(call) ==
    IF Spawned(call) = <<>> THEN {"AttributeError"}
    ELSE IF Spawned(call)[1].input \notin {NoInput, Password \o "\n"}
    THEN {"CliError", "TimeoutExpired"}
    ELSE {"ok", "CliError", "TimeoutExpired"}

AllOutcomes == {"ok", "CliError", "TimeoutExpired", "AttributeError"}

\* the status the CLI reports once the call has succeeded
StatusAfter(kind) == IF kind = "connect" THEN SParis ELSE SDisc

\* connect, disconnect and quit threads that run, their queued callbacks,
\* and the dialog of such a handler
ActionCallbacks == {"action_ok", "action_err", "row_ok", "row_err", "quit_done"}

ActionsInFlight ==
    BagCardinality([w \in {x \in BagToSet(workers) : x.kind \in ActionKinds \ {"quit"}}
                       |-> workers[w]])
    + Cardinality({i \in 1..Len(idle) :
                      idle[i].cb \in ActionCallbacks \ {"quit_done"}})
    + (IF dialog.for \in {"none", "quit"} THEN 0 ELSE 1)

\* connect_selected after _ask_sudo_password
connect_selected_with(loc, pwd) ==
    IF pwd = None
    THEN /\ ui' = info(ui, "Cancelled", TRUE)
         /\ UNCHANGED <<workers, idle>>
    ELSE /\ ui' = info(ui, "Connecting to " \o loc \o "...", FALSE)
         /\ workers' = Started(workers,
                Action("connect", <<"connect_location_pw", loc, pwd>>,
                       "action_ok", "action_err", loc, pwd))
         /\ UNCHANGED idle

\* App.connect_location
connect_location(loc) ==
    /\ ui' = info(ui, "Connecting to " \o loc \o "...", FALSE)
    /\ workers' = Started(workers,
           Action("connect", <<"connect_location", loc>>,
                  "action_ok", "action_err", loc, None))
    /\ UNCHANGED idle

\* on_row_activated after _ask_sudo_password: work() calls
\* cli.connect_location_pw(pwd, loc)
row_activated_with(loc, pwd) ==
    IF pwd = None
    THEN UNCHANGED <<ui, workers, idle>>
    ELSE /\ workers' = Started(workers,
                Action("connect", <<"connect_location_pw", pwd, loc>>,
                       "row_ok", "row_err", loc, pwd))
         /\ UNCHANGED <<ui, idle>>

\* App.disconnect after _ask_sudo_password
disconnect_with(pwd) ==
    IF pwd = None
    THEN /\ ui' = info(ui, "Cancelled", TRUE)
         /\ UNCHANGED <<workers, idle>>
    ELSE /\ ui' = info(ui, "Disconnecting...", FALSE)
         /\ workers' = Started(workers,
                Action("disconnect", <<"disconnect_pw", pwd>>,
                       "action_ok", "action_err", "", pwd))
         /\ UNCHANGED idle

quit_with_exit_now(pwd) ==
    /\ workers' = Started(workers,
           Action("quit", IF pwd = None THEN <<"disconnect">>
                          ELSE <<"disconnect_pw", pwd>>,
                  "quit_done", "quit_done", "", pwd))
    /\ idle' = Append(idle, Callback("quit_done", <<>>, "", FALSE))
    /\ UNCHANGED ui

\* quit_from_tray after _ask_sudo_password: both callbacks are _do_quit
quit_with(pwd) ==
    /\ workers' = Started(workers,
           Action("quit", IF pwd = None THEN <<"disconnect">>
                          ELSE <<"disconnect_pw", pwd>>,
                  "quit_done", "quit_done", "", pwd))
    /\ UNCHANGED <<ui, idle>>

\* what adguardvpn-cli prints when the call has succeeded
CliSays(kind) == IF kind = "connect" THEN "Successfully connected" ELSE ""

\* App.connect_fastest
connect_fastest_start ==
    /\ ui' = info(ui, "Connecting to the fastest...", FALSE)
    /\ workers' = Started(workers,
           Action("connect", <<"connect_fastest">>,
                  "action_ok", "action_err", "", None))
    /\ UNCHANGED idle

\* what a handler leaves alone apart from the widgets, the threads, the
\* idle queue, the dialog and _quitting
handlerRest == <<worldVars, poll_inflight, last_fast_text, locations_text_cache,
                 last_connected, licenseVars, timers, gtk_main, off_ui, shown,
                 harnessVars>>

\* the Fastest button and the tray's Connect item
ConnectFastestClicked ==
    /\ gtk_main # "returned"
    /\ ActionsInFlight < MaxActions
    /\ connect_fastest_start
    /\ UNCHANGED <<handlerRest, quitting, dialog>>

\* the Connect button, with the row selected in the lists: connect_selected
ConnectClicked(row, stored) ==
    /\ gtk_main # "returned"
    /\ dialog = NoDialog
    /\ ActionsInFlight < MaxActions
    /\ IF row_location(row) = ""
       THEN /\ ui' = info(ui, "Select a location on the right or press Fastest.", TRUE)
            /\ UNCHANGED <<workers, idle, dialog>>
       ELSE IF stored # None
       THEN /\ connect_selected_with(row_location(row), stored)
            /\ UNCHANGED dialog
       ELSE /\ dialog' = [for |-> "connect_selected", loc |-> row_location(row)]
            /\ UNCHANGED <<ui, workers, idle>>
    /\ UNCHANGED <<handlerRest, quitting>>

\* a double click on a row of a list: on_row_activated
RowActivated(row, stored) ==
    /\ gtk_main # "returned"
    /\ dialog = NoDialog
    /\ ActionsInFlight < MaxActions
    /\ row \in RowsShown
    /\ IF row_location(row) = ""
       THEN UNCHANGED <<ui, workers, idle, dialog>>
       ELSE IF last_connected # <<>> /\ last_connected[1]
       THEN /\ connect_location(row_location(row))
            /\ UNCHANGED dialog
       ELSE IF stored # None
       THEN /\ row_activated_with(row_location(row), stored)
            /\ UNCHANGED dialog
       ELSE /\ dialog' = [for |-> "row", loc |-> row_location(row)]
            /\ UNCHANGED <<ui, workers, idle>>
    /\ UNCHANGED <<handlerRest, quitting>>

\* the Disconnect button and the tray's Disconnect item: App.disconnect
DisconnectClicked(stored) ==
    /\ gtk_main # "returned"
    /\ ActionsInFlight < MaxActions
    /\ IF stored # None
       THEN /\ disconnect_with(stored)
            /\ UNCHANGED dialog
       ELSE /\ dialog = NoDialog
            /\ dialog' = [for |-> "disconnect", loc |-> ""]
            /\ UNCHANGED <<ui, workers, idle>>
    /\ UNCHANGED <<handlerRest, quitting>>

quit_from_tray_unguarded(stored) ==
    /\ gtk_main # "returned"
    /\ quitting' = TRUE
    /\ IF stored # None
       THEN /\ quit_with(stored)
            /\ UNCHANGED dialog
       ELSE /\ dialog = NoDialog
            /\ dialog' = [for |-> "quit", loc |-> ""]
            /\ UNCHANGED <<ui, workers, idle>>
    /\ UNCHANGED handlerRest

\* the tray's Exit item: quit_from_tray
quit_from_tray(stored) ==
    /\ gtk_main # "returned"
    /\ ~quitting
    /\ quitting' = TRUE
    /\ IF stored # None
       THEN /\ quit_with(stored)
            /\ UNCHANGED dialog
       ELSE /\ dialog = NoDialog
            /\ dialog' = [for |-> "quit", loc |-> ""]
            /\ UNCHANGED <<ui, workers, idle>>
    /\ UNCHANGED handlerRest

\* the user answers the password dialog and the handler that asked goes
\* on; Gtk.main returns after it when Gtk.main_quit() was called meanwhile,
\* and the process ends with its threads
AnswerDialog(a) ==
    /\ dialog # NoDialog
    /\ dialog' = NoDialog
    /\ IF gtk_main = "quit"
       THEN /\ gtk_main' = "returned"
            /\ workers' = EmptyBag
            /\ idle' = <<>>
            /\ timers' = {}
            /\ UNCHANGED ui
       ELSE /\ CASE dialog.for = "connect_selected" ->
                        connect_selected_with(dialog.loc, asked_password(a))
                 [] dialog.for = "row" ->
                        row_activated_with(dialog.loc, asked_password(a))
                 [] dialog.for = "disconnect" ->
                        disconnect_with(asked_password(a))
                 [] dialog.for = "quit" ->
                        quit_with(asked_password(a))
            /\ UNCHANGED <<gtk_main, timers>>
    /\ UNCHANGED <<worldVars, attrVars, licenseVars, off_ui, shown, harnessVars>>

\* run_bg._t of a connect, disconnect or quit: r = fn(), then
\* GLib.idle_add(ok, r), or GLib.idle_add(err, e) when fn raised
ActionWorker(w, o) ==
    /\ w.kind \in ActionKinds
    /\ o \in ActionOutcomes(w.call)
    /\ workers' = IF o = "ok" /\ vpn # StatusAfter(w.kind)
                  THEN MarkStaleWorkers(Ended(workers, w))
                  ELSE Ended(workers, w)
    /\ vpn' = IF o = "ok" THEN StatusAfter(w.kind) ELSE vpn
    /\ shown' = IF o = "ok" /\ vpn # StatusAfter(w.kind) /\ shown = "fresh"
                THEN "stale" ELSE shown
    /\ idle' = Append(IF o = "ok" /\ vpn # StatusAfter(w.kind)
                      THEN MarkStale(idle) ELSE idle,
                      IF o = "ok" THEN Callback(w.ok, <<CliSays(w.kind)>>, "", FALSE)
                      ELSE Callback(w.err, <<>>, o, FALSE))
    /\ UNCHANGED <<now, attrVars, licenseVars, ui, timers, dialog, gtk_main,
                   off_ui, harnessVars>>

\* when the status on display was read, once the callback has run
Shown(cb) ==
    IF cb.cb \notin {"poll_ok", "refresh_ok"} THEN shown
    ELSE IF ~cb.stale THEN "fresh"
    ELSE IF shown = "fresh" THEN "older"
    ELSE "stale"

\* the refreshes that are running or whose callback is still queued
InFlight ==
    BagCardinality([w \in {x \in BagToSet(workers) : x.kind = "refresh"} |-> workers[w]])
    + Cardinality({i \in 1..Len(idle) : idle[i].cb \in {"refresh_ok", "refresh_err"}})

\* the ok callback of connect_selected, connect_location, connect_fastest
\* and disconnect: (self.info(out or "..."), self.refresh_all()).  Threads
\* of refresh_all beyond MaxInFlight are not followed
action_ok(cb) ==
    /\ ui' = info(info(ui, Or(cb.res[1], "Connected"), FALSE), "Refreshing...", FALSE)
    /\ workers' = IF InFlight < MaxInFlight
                  THEN Started(workers, Worker("refresh")) ELSE workers
    /\ UNCHANGED <<attrVars, licenseVars>>

\* their err callback
action_err(cb) ==
    /\ ui' = info(ui, "Error: " \o cb.e, TRUE)
    /\ UNCHANGED <<attrVars, licenseVars, workers>>

\* ok and err of on_row_activated call self._kick_status() and
\* self._set_error(), which App does not define: the callback raises
\* AttributeError and has changed nothing
row_callback(cb) ==
    UNCHANGED <<attrVars, licenseVars, ui, workers>>

(***************************************************************************)
(* Applying the settings.  settings_apply reads the mode and the DNS entry *)
(* on the UI thread; its thread _apply reads the other eight controls one  *)
(* by one, each right before the command that sends it.  proc is the list  *)
(* of the config commands issued so far, st the controls as they were when *)
(* Apply was pressed.                                                      *)
(***************************************************************************)
\* def onoff(b)
onoff(b) == IF b THEN "on" ELSE "off"

\* the subcommands of `adguardvpn-cli config` in the order of _apply
SetCommands ==
    <<"set-mode", "set-dns", "set-change-system-dns", "set-crash-reporting",
      "set-telemetry", "set-protocol", "set-post-quantum", "set-update-channel",
      "set-debug-logging", "set-show-notifications">>

\* the value of command k, from the two values settings_apply has captured
\* and from the controls c
apply_value(k, mode, dns, c) ==
    CASE k = 1  -> mode
      [] k = 2  -> IF dns # "" THEN dns ELSE "default"
      [] k = 3  -> onoff(c.sw_change_dns)
      [] k = 4  -> onoff(c.sw_crash)
      [] k = 5  -> onoff(c.sw_telemetry)
      [] k = 6  -> Or(c.cmb_protocol, "auto")
      [] k = 7  -> onoff(c.sw_pq)
      [] k = 8  -> Or(c.cmb_update_channel, "release")
      [] k = 9  -> onoff(c.sw_debug)
      [] k = 10 -> onoff(c.sw_notify)

\* self._set_settings_out(msg)
set_settings_out(u, msg) == [u EXCEPT !.lbl_settings_out = msg]

\* the thread of settings_apply: n commands have succeeded
ApplyThread(mode, dns) ==
    [kind |-> "apply", n |-> 0, res |-> <<>>, stale |-> FALSE,
     mode |-> mode, dns |-> dns]

\* one command of _apply: it is issued with the value its control holds
\* now; an exception ends the thread with the err callback, the tenth
\* success ends it with the ok callback
apply_step(w, o) ==
    LET k == w.n + 1
    IN  /\ proc' = Append(proc, <<SetCommands[k],
                                  apply_value(k, w.mode, w.dns, ui.settings)>>)
        /\ IF o # "ok"
           THEN /\ workers' = Ended(workers, w)
                /\ idle' = Append(idle, Callback("apply_err", <<>>, o, FALSE))
           ELSE IF k = Len(SetCommands)
           THEN /\ workers' = Ended(workers, w)
                /\ idle' = Append(idle, Callback("apply_ok", <<"">>, "", FALSE))
           ELSE /\ workers' = Started(Ended(workers, w), [w EXCEPT !.n = k])
                /\ idle' = idle

\* the ok callback of settings_apply:
\* (self._set_settings_out(out or "Применено."), self.refresh_all())
apply_ok(cb) ==
    /\ ui' = info(set_settings_out(ui, Or(cb.res[1], "Applied.")),
                  "Refreshing...", FALSE)
    /\ workers' = IF InFlight < MaxInFlight
                  THEN Started(workers, Worker("refresh")) ELSE workers
    /\ UNCHANGED <<attrVars, licenseVars>>

\* the err callback of settings_apply
apply_err(cb) ==
    /\ ui' = set_settings_out(ui, "Error: " \o cb.e)
    /\ UNCHANGED <<attrVars, licenseVars, workers>>

\* _do_quit of quit_from_tray: Gtk.main_quit().  Gtk.main returns when the
\* callback has, and the process ends with its threads; under an open
\* dialog it returns only after the dialog's own loop has ended
do_quit(cb) ==
    /\ workers' = IF dialog = NoDialog THEN EmptyBag ELSE workers
    /\ UNCHANGED <<attrVars, licenseVars, ui>>

\* the process ends with this callback
Exits(cb) == cb.cb = "quit_done" /\ dialog = NoDialog

\* GLib.idle_add calls a callback again as long as it returns a true value:
\* the ok callbacks above return a pair
Repeats(cb) == cb.cb \in {"action_ok", "apply_ok"}

\* the main loop runs the oldest queued idle callback
Deliver ==
    /\ idle # <<>>
    /\ LET cb == Head(idle)
       IN  /\ CASE cb.cb = "poll_ok"       -> poll_ok(cb)
                [] cb.cb = "poll_err"      -> poll_err(cb)
                [] cb.cb = "refresh_ok"    -> on_refresh_ok(cb)
                [] cb.cb = "refresh_err"   -> on_refresh_err(cb)
                [] cb.cb = "license_label" -> license_label(cb)
                [] cb.cb = "action_ok"     -> action_ok(cb)
                [] cb.cb = "action_err"    -> action_err(cb)
                [] cb.cb \in {"row_ok", "row_err"} -> row_callback(cb)
                [] cb.cb = "quit_done"     -> do_quit(cb)
                [] cb.cb = "apply_ok"      -> apply_ok(cb)
                [] cb.cb = "apply_err"     -> apply_err(cb)
           /\ idle' = IF Exits(cb) THEN <<>>
                      ELSE IF Repeats(cb) THEN Append(Tail(idle), cb)
                      ELSE Tail(idle)
           /\ timers' = IF Exits(cb) THEN {} ELSE timers
           /\ gtk_main' = IF cb.cb # "quit_done" THEN gtk_main
                          ELSE IF dialog = NoDialog THEN "returned" ELSE "quit"
           /\ shown' = Shown(cb)
    /\ UNCHANGED <<worldVars, off_ui, dialog, harnessVars>>

\* App.refresh_all, from the Refresh button
RefreshClicked ==
    /\ InFlight < MaxInFlight
    /\ ui' = info(ui, "Refreshing...", FALSE)
    /\ workers' = Started(workers, Worker("refresh"))
    /\ UNCHANGED <<worldVars, attrVars, licenseVars, idle, timers,
                   off_ui, shown, dialog, gtk_main,
                   harnessVars>>

Next ==
    \/ \E s \in StatusOutputs : VpnChanges(s)
    \/ \E t \in Timers : poll_status(t)
    \/ \E w \in BagToSet(workers), o \in Outcomes : PollWorker(w, o)
    \/ \E w \in BagToSet(workers) : PollWorkerReturns(w)
    \/ \E w \in BagToSet(workers), o \in Outcomes : RefreshWorker(w, o)
    \/ \E w \in BagToSet(workers), o \in Outcomes, g \in Gens :
            RefreshWorkerLists(w, o, g)
    \/ \E w \in BagToSet(workers), o \in LicenseOutcomes : LicenseWorker(w, o)
    \/ Deliver
    \/ RefreshClicked

(***************************************************************************)
(* Parser harness: every text built from up to MaxFrags fragments, and     *)
(* every text of the documented connected form, is parsed once.            *)
(***************************************************************************)
MaxFrags == 3

Fragments ==
    {"Connected to ", "connected to ", "CONNECTED TO", "VPN is disconnected",
     " in ", " mode", "running on ", "New York", "tun0", " ", "\n"}

RECURSIVE FragTexts(_)
FragTexts(n) ==
    IF n = 0 THEN {""}
    ELSE LET shorter == FragTexts(n - 1)
         IN  shorter \cup {a \o b : a \in shorter, b \in Fragments}

\* the fields X, Y, Z of "Connected to X in Y mode ... running on Z"
FieldX == {"New York", "PARIS", "in", "in Rome", "Check in", " Oslo", "Oslo ", "a", ""}
FieldY == {"TUN", "tun", "Socks5", " TUN", "x", ""}
FieldZ == {"tun0", "wg0 ", "a b"}
Middle == {", ", " ", " (in x mode), ", ", in use, ", ", not running on eth0, "}

\* no marker substring occurs in the field
NoMarker(f) ==
    /\ ~Contains(f, " in ")
    /\ ~Contains(f, " mode")
    /\ ~Contains(f, "running on")

ConnectedForm(x, y, m, z) ==
    "Connected to " \o x \o " in " \o y \o " mode" \o m \o "running on " \o z

FormTexts ==
    {ConnectedForm(x, y, m, z) : x \in FieldX, y \in FieldY, m \in Middle, z \in FieldZ}

StatusInputs == FragTexts(MaxFrags) \cup FormTexts

NoResult == [connected |-> FALSE, location |-> "?", mode |-> "?", iface |-> "?"]

parseVars == <<text, st>>

\* the harness of the process runner is at rest
NoProc == [runner |-> "none"]

\* neither outside changes nor failing fetches are counted
Unlimited == [limited |-> FALSE, changes |-> 0, failures |-> 0]

InitParse ==
    /\ text \in StatusInputs
    /\ st = NoResult
    /\ proc = NoProc
    /\ budget = Unlimited
    /\ InitApp

\* cli.parse_status(text)
ParseStatus ==
    /\ st = NoResult
    /\ st' = parse_status(text)
    /\ UNCHANGED <<text, proc, budget, appVars>>

vars == <<harnessVars, appVars>>

NextParse == ParseStatus

SpecParse == InitParse /\ [][NextParse]_vars

(***************************************************************************)
(* Location-list harness: every text of up to MaxLines lines drawn from    *)
(* header, footer, data rows and lines that are none of these is parsed    *)
(* once.                                                                   *)
(***************************************************************************)
MaxLines == 4

LocLines ==
    {"ISO  COUNTRY  CITY  PING", "You can connect to a location",
     "DE  Germany  Berlin  15", "US  United States  New York  7  ",
     "FR France Paris 20", "", "ISO2  Isoland  Town  9"}

\* the texts of at most n lines, each line ended by "\n"
RECURSIVE LocTexts(_)
LocTexts(n) ==
    IF n = 0 THEN {""}
    ELSE LET shorter == LocTexts(n - 1)
         IN  shorter \cup {a \o b \o "\n" : a \in shorter, b \in LocLines}

LocInputs == LocTexts(MaxLines)

InitLoc ==
    /\ text \in LocInputs
    /\ st = NoResult
    /\ proc = NoProc
    /\ budget = Unlimited
    /\ InitApp

\* cli.parse_locations(text)
ParseLocations ==
    /\ st = NoResult
    /\ st' = [rows |-> parse_locations(text)]
    /\ UNCHANGED <<text, proc, budget, appVars>>

NextLoc == ParseLocations

SpecLoc == InitLoc /\ [][NextLoc]_vars

(***************************************************************************)
(* Runner harness: one call of run, _run_sudo or _run_pkexec on a process  *)
(* that prints texts of up to MaxCodeFrags fragments (escape sequences,    *)
(* whole and cut short, control characters, whitespace, plain text) and    *)
(* exits with some code or outlives the timeout.                           *)
(***************************************************************************)
MaxCodeFrags == 2

\* ESC[31m, ESC[1 q, ESC[, ESC, "OK", space, newline, tab, DEL, the 8-bit
\* CSI with "3m", BEL, and the OSC sequence ESC]0;X BEL
CodeFrags ==
    {<<27, 91, 51, 49, 109>>, <<27, 91, 49, 32, 113>>, <<27, 91>>, <<27>>,
     <<79, 75>>, <<32>>, <<10>>, <<9>>, <<127>>, <<155, 51, 109>>, <<7>>,
     <<27, 93, 48, 59, 88, 7>>}

RECURSIVE CodeTexts(_)
CodeTexts(n) ==
    IF n = 0 THEN {<<>>}
    ELSE LET shorter == CodeTexts(n - 1)
         IN  shorter \cup {a \o b : a \in shorter, b \in CodeFrags}

\* "License expired"
LicenseExpired ==
    <<76, 105, 99, 101, 110, 115, 101, 32, 101, 120, 112, 105, 114, 101, 100>>

Runners == {"run", "_run_sudo", "_run_pkexec"}

\* a second process would exit with 0 and print "OK"
Retry == Attempt(<<79, 75>>, <<>>, 0, FALSE)

\* a rich stdout that is returned, or a rich stderr that is raised
CleanCases ==
    {[runner |-> "run", attempts |-> <<Attempt(t, <<>>, 0, FALSE), Retry>>] :
         t \in CodeTexts(MaxCodeFrags)}
    \cup {[runner |-> "run", attempts |-> <<Attempt(<<>>, t, 1, FALSE), Retry>>] :
              t \in CodeTexts(MaxCodeFrags)}

\* every runner on every combination of empty and non-empty streams with
\* the exit codes 0, 2 and -9 (killed) and with the timeout
ExitCases ==
    {[runner |-> r, attempts |-> <<Attempt(o, e, c[1], c[2]), Retry>>] :
         r \in Runners,
         o \in {<<>>, <<79, 75>>, <<27, 91, 51, 49, 109>>},
         e \in {<<>>, <<10, 32>>, LicenseExpired},
         c \in {<<0, FALSE>>, <<2, FALSE>>, <<0 - 9, FALSE>>, <<0, TRUE>>}}

InitRun ==
    /\ text = ""
    /\ st = NoResult
    /\ proc \in CleanCases \cup ExitCases
    /\ budget = Unlimited
    /\ InitApp

\* run(args), _run_sudo(password, args) or _run_pkexec(args)
RunProc ==
    /\ st = NoResult
    /\ st' = run_proc(proc)
    /\ UNCHANGED <<text, proc, budget, appVars>>

NextRun == RunProc

SpecRun == InitRun /\ [][NextRun]_vars

(***************************************************************************)
(* Settings and exclusions harness: parse_config, bool_on and              *)
(* _render_exclusions on every text of up to MaxTextLines lines drawn from *)
(* TextLines (configuration lines with repeated and empty keys, the        *)
(* banners, switch values, mode outputs, domains).                         *)
(***************************************************************************)
MaxTextLines == 2

TextLines ==
    {"Current configuration:", "Mode: TUN", " mode :socks ",
     "DNS upstream: 1.1.1.1:53", ": x", "no colon", "", "  ",
     "On", " YES", "enabled", "true", "off", "1",
     "GENERAL", "Mode SELECTIVE (was GENERAL)", "general mode",
     "Exclusions for GENERAL mode:", "a.org", " b.net "}

\* the texts of at most n lines; the last line of a text may lack its "\n"
RECURSIVE TextsOf(_)
TextsOf(n) ==
    IF n = 0 THEN {""}
    ELSE LET shorter == TextsOf(n - 1)
         IN  shorter \cup {a \o b \o "\n" : a \in shorter, b \in TextLines}

TextInputs ==
    TextsOf(MaxTextLines) \cup {a \o b : a \in TextsOf(MaxTextLines - 1), b \in TextLines}

\* the exclusion widgets as an earlier refresh has left them
UiBefore ==
    [InitialUi EXCEPT !.excl_mode = "SELECTIVE",
                      !.store_excl = <<"old.example", "a.org">>]

InitText ==
    /\ text \in TextInputs
    /\ st = NoResult
    /\ proc = NoProc
    /\ budget = Unlimited
    /\ InitApp

\* parse_config(text)
ParseConfig ==
    /\ st = NoResult
    /\ st' = [fn |-> "parse_config", cfg |-> parse_config(text)]
    /\ UNCHANGED <<text, proc, budget, appVars>>

\* bool_on(text)
BoolOn ==
    /\ st = NoResult
    /\ st' = [fn |-> "bool_on", on |-> bool_on(text)]
    /\ UNCHANGED <<text, proc, budget, appVars>>

\* self._render_exclusions(text, show_text)
RenderExclusionMode ==
    /\ st = NoResult
    /\ st' = [fn |-> "mode", u |-> render_exclusions(UiBefore, text, "a.org\n")]
    /\ UNCHANGED <<text, proc, budget, appVars>>

\* self._render_exclusions(mode_text, text)
RenderExclusionList ==
    /\ st = NoResult
    /\ st' = [fn |-> "list", u |-> render_exclusions(UiBefore, "GENERAL", text)]
    /\ UNCHANGED <<text, proc, budget, appVars>>

NextText ==
    \/ ParseConfig
    \/ BoolOn
    \/ RenderExclusionMode
    \/ RenderExclusionList

SpecText == InitText /\ [][NextText]_vars

(***************************************************************************)
(* The capability grant (cli.py 138-166).                                  *)
(***************************************************************************)
\* what _cli_realpath() resolves to
CliPath == "/opt/adguardvpn_cli/adguardvpn-cli"

\* caps = "cap_net_admin,cap_net_raw,cap_net_bind_service+ep"
GrantedCaps == {"cap_net_admin", "cap_net_raw", "cap_net_bind_service"}

\* what `getcap <path>` prints for a file holding the capabilities caps
GetcapPrints(caps) ==
    IF caps = {} THEN ""
    ELSE CliPath \o " "
         \o (IF "cap_net_admin" \in caps THEN "cap_net_admin" ELSE "")
         \o (IF {"cap_net_admin", "cap_net_bind_service"} \subseteq caps THEN "," ELSE "")
         \o (IF "cap_net_bind_service" \in caps THEN "cap_net_bind_service" ELSE "")
         \o (IF "cap_net_raw" \in caps /\ caps # {"cap_net_raw"} THEN "," ELSE "")
         \o (IF "cap_net_raw" \in caps THEN "cap_net_raw" ELSE "")
         \o "=ep\n"

\* ["pkexec", setcap, caps, cli_path]
SetcapArgv ==
    <<"pkexec", "setcap", "cap_net_admin,cap_net_raw,cap_net_bind_service+ep", CliPath>>

\* the result r of a call tells that pkexec setcap was spawned
RanSetcap(r) == \E k \in 1..Len(r.spawned) : r.spawned[k] = SetcapArgv

\* "Не удалось выдать права (setcap)."
GrantFailedMessage == <<115, 101, 116, 99, 97, 112>>

\* the rest of ensure_caps_for_connect once the query has not returned:
\* pkexec setcap is run without a timeout; g tells how that ends (pkexec
\* cannot be started, or it exits with g.rc having printed g.err and g.out)
grant_caps(sys, g, spawned) ==
    IF g.starts
    THEN [raised  |-> IF g.rc # 0 THEN "CliError" ELSE "none",
          value   |-> IF g.rc # 0
                      THEN OrCodes(clean_output(g.err \o <<10>> \o g.out),
                                   GrantFailedMessage)
                      ELSE <<>>,
          spawned |-> Append(spawned, SetcapArgv),
          caps    |-> IF g.rc = 0 THEN GrantedCaps ELSE sys.caps]
    ELSE [raised |-> "FileNotFoundError", value |-> <<>>,
          spawned |-> spawned, caps |-> sys.caps]

\* a grant that does not ask first
ensure_caps_always_grant(sys, g) ==
    grant_caps(sys, g, <<>>)

\* ensure_caps_for_connect() on a system sys: sys.caps are the capabilities
\* of the CLI binary, sys.getcap tells whether the query can be run at all
\* (an exception of subprocess.run is swallowed and the grant is attempted)
ensure_caps_for_connect(sys, g) ==
    IF sys.getcap = "runs"
    THEN IF Contains(GetcapPrints(sys.caps), "cap_net_admin")
         THEN [raised |-> "none", value |-> <<>>,
               spawned |-> <<<<"getcap", CliPath>>>>, caps |-> sys.caps]
         ELSE grant_caps(sys, g, <<<<"getcap", CliPath>>>>)
    ELSE grant_caps(sys, g, <<>>)

(***************************************************************************)
(* Capability harness: up to MaxCalls calls of ensure_caps_for_connect in  *)
(* a row on one system. proc is the system (the capabilities the binary    *)
(* holds, whether getcap can be run), st the calls made so far.            *)
(***************************************************************************)
MaxCalls == 3

\* how `pkexec setcap ...` can end: pkexec is not installed; setcap exits
\* with 0; the user dismisses the polkit prompt (126, nothing printed);
\* setcap fails with a message on stderr
GrantOutcomes ==
    {[starts |-> FALSE, rc |-> 0, out |-> <<>>, err |-> <<>>],
     [starts |-> TRUE, rc |-> 0, out |-> <<>>, err |-> <<>>],
     [starts |-> TRUE, rc |-> 126, out |-> <<>>, err |-> <<>>],
     [starts |-> TRUE, rc |-> 1, out |-> <<>>, err |-> LicenseExpired]}

InitCaps ==
    /\ text = ""
    /\ st = <<>>
    /\ proc \in [caps : {{}, {"cap_net_raw"}, {"cap_net_admin"}, GrantedCaps},
                 getcap : {"runs", "raises"}]
    /\ budget = Unlimited
    /\ InitApp

\* ensure_caps_for_connect(), with the grant ending as g if it is attempted
EnsureCaps(g) ==
    /\ Len(st) < MaxCalls
    /\ LET r == ensure_caps_for_connect(proc, g)
       IN  /\ st' = Append(st, [before |-> proc.caps, r |-> r,
                                rc |-> IF RanSetcap(r)
                                       THEN <<g.rc>> ELSE <<>>])
           /\ proc' = [proc EXCEPT !.caps = r.caps]
    /\ UNCHANGED <<text, budget, appVars>>

NextCaps == \E g \in GrantOutcomes : EnsureCaps(g)

SpecCaps == InitCaps /\ [][NextCaps]_vars

\* the application, with the parser harness at rest
Init ==
    /\ text = ""
    /\ st = NoResult
    /\ proc = NoProc
    /\ budget = Unlimited
    /\ InitApp

Spec == Init /\ [][Next]_vars

(***************************************************************************)
(* The application in an environment that settles: the VPN changes from    *)
(* outside at most MaxChanges times and a status fetch fails at most       *)
(* MaxFailures times.  Timers keep firing, threads keep running and the    *)
(* main loop keeps dispatching idle callbacks.                             *)
(***************************************************************************)
MaxChanges == 2
MaxFailures == 1

InitLive ==
    /\ text = ""
    /\ st = NoResult
    /\ proc = NoProc
    /\ budget = [limited |-> TRUE, changes |-> MaxChanges, failures |-> MaxFailures]
    /\ InitApp

\* GLib fires each registered timer again and again, every started thread
\* runs on to its end (each CLI invocation has a timeout), and Gtk.main
\* runs the queued idle callbacks: Deliver is the only step that removes
\* the head of the idle queue and it can run whenever the queue is not
\* empty, so its fairness is stated on that removal
Fairness ==
    /\ \A t \in Timers : WF_vars(poll_status(t))
    /\ WF_vars(\E w \in BagToSet(workers), o \in Outcomes : PollWorker(w, o))
    /\ WF_vars(\E w \in BagToSet(workers) : PollWorkerReturns(w))
    /\ WF_vars(\E w \in BagToSet(workers), o \in Outcomes : RefreshWorker(w, o))
    /\ WF_vars(\E w \in BagToSet(workers), o \in Outcomes, g \in Gens :
                   RefreshWorkerLists(w, o, g))
    /\ WF_vars(\E w \in BagToSet(workers), o \in LicenseOutcomes : LicenseWorker(w, o))
    /\ WF_idle(idle # <<>> /\ idle' = Tail(idle))

\* the steps of the application when nobody presses Refresh
NextLive ==
    \/ \E s \in StatusOutputs : VpnChanges(s)
    \/ \E t \in Timers : poll_status(t)
    \/ \E w \in BagToSet(workers), o \in Outcomes : PollWorker(w, o)
    \/ \E w \in BagToSet(workers) : PollWorkerReturns(w)
    \/ \E w \in BagToSet(workers), o \in Outcomes : RefreshWorker(w, o)
    \/ \E w \in BagToSet(workers), o \in Outcomes, g \in Gens :
            RefreshWorkerLists(w, o, g)
    \/ \E w \in BagToSet(workers), o \in LicenseOutcomes : LicenseWorker(w, o)
    \/ Deliver

SpecLive == InitLive /\ [][NextLive]_vars /\ Fairness

\* the steps of the application with its user connecting, disconnecting
\* and quitting, as long as no poll timer fires and nobody changes the
\* connection from a terminal
NextAct ==
    \/ \E w \in BagToSet(workers), o \in Outcomes : RefreshWorker(w, o)
    \/ \E w \in BagToSet(workers), o \in Outcomes, g \in Gens :
            RefreshWorkerLists(w, o, g)
    \/ \E w \in BagToSet(workers), o \in LicenseOutcomes : LicenseWorker(w, o)
    \/ Deliver
    \/ ConnectFastestClicked
    \/ \E row \in RowsShown \cup {NoRow}, stored \in StoredPasswords :
            ConnectClicked(row, stored)
    \/ \E row \in RowsShown, stored \in StoredPasswords : RowActivated(row, stored)
    \/ \E stored \in StoredPasswords : DisconnectClicked(stored)
    \/ \E stored \in StoredPasswords : quit_from_tray(stored)
    \/ \E a \in Answers : AnswerDialog(a)
    \/ \E w \in BagToSet(workers), o \in AllOutcomes : ActionWorker(w, o)

SpecAct == Init /\ [][NextAct]_vars

\* every started thread runs on to its end (each CLI invocation has a
\* timeout), Gtk.main and the dialog's loop run the queued idle callbacks
\* (a callback leaves the head of the queue when it has run), and the user
\* answers an open password dialog
FairnessAct ==
    /\ WF_vars(\E w \in BagToSet(workers), o \in Outcomes : RefreshWorker(w, o))
    /\ WF_vars(\E w \in BagToSet(workers), o \in Outcomes, g \in Gens :
                   RefreshWorkerLists(w, o, g))
    /\ WF_vars(\E w \in BagToSet(workers), o \in LicenseOutcomes : LicenseWorker(w, o))
    /\ \A kind \in ActionKinds :
           WF_vars(\E w \in BagToSet(workers), o \in AllOutcomes :
                       w.kind = kind /\ ActionWorker(w, o))
    /\ WF_idle(idle # <<>>
                 /\ idle' \in {Tail(idle), Append(Tail(idle), Head(idle)), <<>>})
    /\ WF_vars(\E a \in Answers : AnswerDialog(a))

SpecQuit == Init /\ [][NextAct]_vars /\ FairnessAct

\* the same with the two poll timers, and with the tray's Exit item as the
\* only thing the user does
NextExit ==
    \/ \E t \in Timers : poll_status(t)
    \/ \E w \in BagToSet(workers), o \in Outcomes : PollWorker(w, o)
    \/ \E w \in BagToSet(workers) : PollWorkerReturns(w)
    \/ \E w \in BagToSet(workers), o \in Outcomes : RefreshWorker(w, o)
    \/ \E w \in BagToSet(workers), o \in Outcomes, g \in Gens :
            RefreshWorkerLists(w, o, g)
    \/ \E w \in BagToSet(workers), o \in LicenseOutcomes : LicenseWorker(w, o)
    \/ Deliver
    \/ \E stored \in StoredPasswords : quit_from_tray(stored)
    \/ \E a \in Answers : AnswerDialog(a)
    \/ \E w \in BagToSet(workers), o \in AllOutcomes : ActionWorker(w, o)

SpecExit == Init /\ [][NextExit]_vars

(***************************************************************************)
(* Polling on its own: the two timers, the status fetch ending in every    *)
(* way run allows (exit 0, CliError, TimeoutExpired after 15 s), a result  *)
(* whose rendering raises, and the VPN changing from outside at will.      *)
(***************************************************************************)
PollOutcomes == {"ok", "CliError", "TimeoutExpired"}

\* _ok of _poll_status when cli.parse_status or _render_status raises: the
\* flag is cleared before the try block, the exception is swallowed
PollOkRaises ==
    /\ idle # <<>>
    /\ Head(idle).cb = "poll_ok"
    /\ poll_inflight' = FALSE
    /\ idle' = Tail(idle)
    /\ UNCHANGED <<worldVars, quitting, last_fast_text, locations_text_cache,
                   last_connected, licenseVars, ui, workers, timers,
                   off_ui, shown, dialog, gtk_main, harnessVars>>

NextPoll ==
    \/ \E s \in StatusOutputs : VpnChanges(s)
    \/ \E t \in Timers : poll_status(t)
    \/ \E w \in BagToSet(workers), o \in PollOutcomes : PollWorker(w, o)
    \/ \E w \in BagToSet(workers) : PollWorkerReturns(w)
    \/ \E w \in BagToSet(workers), o \in Outcomes : RefreshWorker(w, o)
    \/ \E w \in BagToSet(workers), o \in Outcomes, g \in Gens :
            RefreshWorkerLists(w, o, g)
    \/ \E w \in BagToSet(workers), o \in LicenseOutcomes : LicenseWorker(w, o)
    \/ Deliver
    \/ PollOkRaises

\* each thread runs on to its end, the main loop runs the queued callbacks
FairnessPoll ==
    /\ WF_vars(\E w \in BagToSet(workers), o \in PollOutcomes : PollWorker(w, o))
    /\ WF_vars(\E w \in BagToSet(workers) : PollWorkerReturns(w))
    /\ WF_vars(\E w \in BagToSet(workers), o \in Outcomes : RefreshWorker(w, o))
    /\ WF_vars(\E w \in BagToSet(workers), o \in Outcomes, g \in Gens :
                   RefreshWorkerLists(w, o, g))
    /\ WF_vars(\E w \in BagToSet(workers), o \in LicenseOutcomes : LicenseWorker(w, o))
    /\ WF_idle(idle # <<>> /\ idle' = Tail(idle))

SpecPoll == Init /\ [][NextPoll]_vars /\ FairnessPoll

(***************************************************************************)
(* The window and the tray: the tray's Open item shows the window, closing *)
(* the window hides it and the application lives on in the tray.           *)
(***************************************************************************)
\* App.show: self.win.show_all(); self.win.present().  Which children
\* show_all reveals is decided by main_window.ui; the two buttons are taken
\* to be exempt from it, so that they stay as _render_status left them
show(u) == [u EXCEPT !.win = TRUE]

\* the tray's Open item
ShowWindow ==
    /\ gtk_main # "returned"
    /\ ui' = show(ui)
    /\ UNCHANGED <<worldVars, attrVars, licenseVars, workers, idle, timers,
                   off_ui, shown, dialog, gtk_main, harnessVars>>

\* delete-event of the window: on_close_to_tray
CloseToTray ==
    /\ gtk_main # "returned"
    /\ ui' = [ui EXCEPT !.win = FALSE]
    /\ UNCHANGED <<worldVars, attrVars, licenseVars, workers, idle, timers,
                   off_ui, shown, dialog, gtk_main, harnessVars>>

NextWin ==
    \/ \E s \in StatusOutputs : VpnChanges(s)
    \/ \E t \in Timers : poll_status(t)
    \/ \E w \in BagToSet(workers), o \in Outcomes : PollWorker(w, o)
    \/ \E w \in BagToSet(workers) : PollWorkerReturns(w)
    \/ \E w \in BagToSet(workers), o \in Outcomes : RefreshWorker(w, o)
    \/ \E w \in BagToSet(workers), o \in Outcomes, g \in Gens :
            RefreshWorkerLists(w, o, g)
    \/ \E w \in BagToSet(workers), o \in LicenseOutcomes : LicenseWorker(w, o)
    \/ Deliver
    \/ ShowWindow
    \/ CloseToTray

SpecWin == Init /\ [][NextWin]_vars

\* the Apply button: settings_apply, once per run.  The preferences it
\* saves first are followed in SpecPrefs
SettingsApplyClicked ==
    /\ gtk_main # "returned"
    /\ st = NoResult
    /\ st' = ui.settings
    /\ ui' = set_settings_out(ui, "Applying...")
    /\ workers' = Started(workers,
                          ApplyThread(Or(ui.settings.cmb_mode, "tun"),
                                      Strip(ui.settings.entry_dns)))
    /\ UNCHANGED <<worldVars, attrVars, licenseVars, idle, timers, off_ui, shown,
                   dialog, gtk_main, text, proc, budget>>

\* run_bg._t of settings_apply
ApplyWorker(w, o) ==
    /\ w.kind = "apply"
    /\ apply_step(w, o)
    /\ UNCHANGED <<worldVars, attrVars, licenseVars, ui, timers, off_ui, shown,
                   dialog, gtk_main, text, st, budget>>

\* the initial refresh and the Apply button of the settings page
NextSet ==
    \/ \E w \in BagToSet(workers), o \in Outcomes : RefreshWorker(w, o)
    \/ \E w \in BagToSet(workers), o \in Outcomes, g \in Gens :
            RefreshWorkerLists(w, o, g)
    \/ \E w \in BagToSet(workers), o \in LicenseOutcomes : LicenseWorker(w, o)
    \/ Deliver
    \/ SettingsApplyClicked
    \/ \E w \in BagToSet(workers), o \in PollOutcomes : ApplyWorker(w, o)

InitSet ==
    /\ text = ""
    /\ st = NoResult
    /\ proc = <<>>
    /\ budget = Unlimited
    /\ InitApp

SpecSet == InitSet /\ [][NextSet]_vars

(***************************************************************************)
(* _render_settings on one line of `config show`: a boolean setting with a *)
(* value, below the line of the mode.                                      *)
(***************************************************************************)
\* the key of each boolean setting in `config show` and the switch that
\* _render_settings sets from it
BoolSettings ==
    <<[key |-> "Change system DNS", sw |-> "sw_change_dns"],
      [key |-> "Crash reporting", sw |-> "sw_crash"],
      [key |-> "Send anonymized usage data", sw |-> "sw_telemetry"],
      [key |-> "Post-quantum cryptography", sw |-> "sw_pq"],
      [key |-> "Debug logging", sw |-> "sw_debug"],
      [key |-> "Show notifications", sw |-> "sw_notify"]>>

SettingValues ==
    {"on", "off", "true", "false", "yes", "no", "enabled", "disabled",
     "ON", "Enabled", "none", "1", ""}

SettingTexts ==
    {"Mode: TUN"}
    \cup {"Mode: TUN\n" \o BoolSettings[i].key \o ": " \o v :
            i \in 1..Len(BoolSettings), v \in SettingValues}

InitSettings ==
    /\ text \in SettingTexts
    /\ st = NoResult
    /\ proc = NoProc
    /\ budget = Unlimited
    /\ InitApp

\* self._render_settings(text)
RenderSettings ==
    /\ st = NoResult
    /\ st' = [fn |-> "render_settings", u |-> render_settings(InitialUi, text)]
    /\ UNCHANGED <<text, proc, budget, appVars>>

NextSettings == RenderSettings

SpecSettings == InitSettings /\ [][NextSettings]_vars

(***************************************************************************)
(* Traffic statistics: _tick_stats, once a second.  budget holds the       *)
(* counters of the interface in /sys/class/net, st the baseline _last_rx   *)
(* and _last_tx, proc the "daily" table of stats.json and text today's     *)
(* key.                                                                    *)
(***************************************************************************)
MaxBytes == 2

\* the days the run may span, as today_key() names them
Days == <<"2026-01-01", "2026-01-02">>

\* iface_bytes(iface): the two counters, or (-1, -1) when one cannot be read
iface_bytes(c) == IF c.readable THEN <<c.rx, c.tx>> ELSE <<-1, -1>>

\* max(0, n)
Max0(n) == IF n > 0 THEN n ELSE 0

\* data.setdefault("daily", {}).get(day, {"rx":0,"tx":0})
DayTotals(daily, day) ==
    IF day \in DOMAIN daily THEN daily[day] ELSE [rx |-> 0, tx |-> 0]

\* data["daily"][day] = cur
WithDay(daily, day, cur) ==
    [d \in DOMAIN daily \cup {day} |-> IF d = day THEN cur ELSE daily[d]]

\* `sampled` stands for `self._last_rx is not None`
NoBaseline == [sampled |-> FALSE, last_rx |-> 0, last_tx |-> 0]

tick_stats_signed(last, daily, day, c) ==
    LET rx == iface_bytes(c)[1]
        tx == iface_bytes(c)[2]
        cur == DayTotals(daily, day)
    IN  IF ~(rx >= 0 /\ tx >= 0) THEN [last |-> last, daily |-> daily]
        ELSE IF ~last.sampled
        THEN [last |-> [sampled |-> TRUE, last_rx |-> rx, last_tx |-> tx],
              daily |-> daily]
        ELSE [last |-> [sampled |-> TRUE, last_rx |-> rx, last_tx |-> tx],
              daily |-> IF rx - last.last_rx # 0 \/ tx - last.last_tx # 0
                        THEN WithDay(daily, day,
                                     [rx |-> cur.rx + (rx - last.last_rx),
                                      tx |-> cur.tx + (tx - last.last_tx)])
                        ELSE daily]

\* the accounting of App._tick_stats: the baseline and the daily table
\* after a tick on the counters c
tick_stats(last, daily, day, c) ==
    LET rx == iface_bytes(c)[1]
        tx == iface_bytes(c)[2]
        drx == Max0(rx - last.last_rx)
        dtx == Max0(tx - last.last_tx)
        cur == DayTotals(daily, day)
    IN  IF ~(rx >= 0 /\ tx >= 0) THEN [last |-> last, daily |-> daily]
        ELSE IF ~last.sampled
        THEN [last |-> [sampled |-> TRUE, last_rx |-> rx, last_tx |-> tx],
              daily |-> daily]
        ELSE [last |-> [sampled |-> TRUE, last_rx |-> rx, last_tx |-> tx],
              daily |-> IF drx # 0 \/ dtx # 0
                        THEN WithDay(daily, day,
                                     [rx |-> cur.rx + drx, tx |-> cur.tx + dtx])
                        ELSE daily]

\* the interface counts traffic, is reset, goes away or comes back
IfaceCounts(c) ==
    /\ budget # c
    /\ budget' = c
    /\ UNCHANGED <<text, st, proc, appVars>>

\* midnight
DayChanges ==
    /\ text = Days[1]
    /\ text' = Days[2]
    /\ UNCHANGED <<st, proc, budget, appVars>>

\* the timer of _tick_stats fires; totals are followed up to MaxBytes + 1
TickStats ==
    /\ st' = tick_stats(st, proc, text, budget).last
    /\ proc' = tick_stats(st, proc, text, budget).daily
    /\ DayTotals(proc', text).rx <= MaxBytes + 1
    /\ DayTotals(proc', text).tx <= MaxBytes + 1
    /\ UNCHANGED <<text, budget, appVars>>

\* the counters: rx up to MaxBytes, tx zero or one
IfaceStates == [readable : BOOLEAN, rx : 0..MaxBytes, tx : {0, 1}]

InitStats ==
    /\ text = Days[1]
    /\ st = NoBaseline
    /\ proc = << >>
    /\ budget \in IfaceStates
    /\ InitApp

NextStats ==
    \/ \E c \in IfaceStates : IfaceCounts(c)
    \/ DayChanges
    \/ TickStats

SpecStats == InitStats /\ [][NextStats]_vars

(***************************************************************************)
(* The stored sudo password: the switch sw_sudo_pwd, the entry             *)
(* ent_sudo_pwd and config.json.  st holds the two widgets, whether the    *)
(* entry is sensitive, and the two keys of the file.                       *)
(***************************************************************************)
MaxPwdLen == 3

PwdChars == {"a", "b", " "}

RECURSIVE PwdTexts(_)
PwdTexts(n) ==
    IF n = 0 THEN {""}
    ELSE PwdTexts(n - 1) \cup {t \o c : t \in PwdTexts(n - 1), c \in PwdChars}

\* default_config(), the two keys of the password
default_config == [sudo_password_enabled |-> FALSE, sudo_password |-> ""]

\* what config.json holds at start: nothing, or what an earlier run saved
StoredConfigs ==
    {default_config}
    \cup {[sudo_password_enabled |-> TRUE, sudo_password |-> Strip(t)] :
            t \in {x \in PwdTexts(MaxPwdLen) : Strip(x) # ""}}

\* App._load_app_prefs_to_ui, before the handlers are connected
load_app_prefs_to_ui(cfg) ==
    LET sudo_enabled == cfg.sudo_password_enabled /\ Strip(cfg.sudo_password) # ""
    IN  [sw_sudo_pwd |-> sudo_enabled, ent_sudo_pwd |-> cfg.sudo_password,
         sensitive |-> sudo_enabled, config |-> cfg]

save_app_prefs_keeping_password(p) ==
    LET pwd == Strip(p.ent_sudo_pwd)
        enabled == p.sw_sudo_pwd /\ pwd # ""
    IN  [p EXCEPT !.config = [sudo_password_enabled |-> enabled,
                              sudo_password |-> pwd]]

\* App._save_app_prefs_from_ui: load_config, the two keys, save_config
save_app_prefs_from_ui(p) ==
    LET pwd == Strip(p.ent_sudo_pwd)
        enabled == p.sw_sudo_pwd /\ pwd # ""
    IN  [p EXCEPT !.config = [sudo_password_enabled |-> enabled,
                              sudo_password |-> IF enabled THEN pwd ELSE ""]]

\* App._on_sudo_toggle, the handler of notify::active
on_sudo_toggle(p) ==
    IF p.sw_sudo_pwd /\ Strip(p.ent_sudo_pwd) = ""
    THEN [p EXCEPT !.sensitive = TRUE, !.config.sudo_password_enabled = FALSE]
    ELSE save_app_prefs_from_ui([p EXCEPT !.sensitive = p.sw_sudo_pwd])

\* App._on_sudo_entry_changed, the handler of changed; set_active(False) on
\* an active switch runs _on_sudo_toggle before it returns
on_sudo_entry_changed(p) ==
    IF Strip(p.ent_sudo_pwd) = ""
    THEN LET q == IF p.sw_sudo_pwd
                  THEN on_sudo_toggle([p EXCEPT !.sw_sudo_pwd = FALSE])
                  ELSE p
         IN  save_app_prefs_from_ui([q EXCEPT !.sensitive = FALSE])
    ELSE save_app_prefs_from_ui(IF p.sw_sudo_pwd
                                THEN [p EXCEPT !.sensitive = TRUE] ELSE p)

\* the user flips the switch
SudoToggled ==
    /\ st' = on_sudo_toggle([st EXCEPT !.sw_sudo_pwd = ~st.sw_sudo_pwd])
    /\ UNCHANGED <<text, proc, budget, appVars>>

\* the user changes the text of the entry, which takes input only while it
\* is sensitive
SudoEntryEdited(t) ==
    /\ st.sensitive
    /\ t # st.ent_sudo_pwd
    /\ st' = on_sudo_entry_changed([st EXCEPT !.ent_sudo_pwd = t])
    /\ UNCHANGED <<text, proc, budget, appVars>>

\* settings_apply: self._save_app_prefs_from_ui(); save_config(self.cfg)
PrefsApplied ==
    /\ st' = save_app_prefs_from_ui(st)
    /\ text' = "applied"
    /\ UNCHANGED <<proc, budget, appVars>>

InitPrefs ==
    /\ text = ""
    /\ st \in {load_app_prefs_to_ui(c) : c \in StoredConfigs}
    /\ proc = NoProc
    /\ budget = Unlimited
    /\ InitApp

NextPrefs ==
    \/ SudoToggled
    \/ \E t \in PwdTexts(MaxPwdLen) : SudoEntryEdited(t)
    \/ PrefsApplied

SpecPrefs == InitPrefs /\ [][NextPrefs]_vars

(***************************************************************************)
(* Properties of parse_status                                              *)
(***************************************************************************)
Disconnected == VpnStatus(FALSE, "", "", "")

\* the trimmed text begins with "connected to", compared case-insensitively
HasConnectedPrefix(txt) == StartsWith(Lower(Strip(txt)), "connected to")

\* C1: parse_status is fail-closed: a text whose trimmed form does not begin
\* with "connected to" (case-insensitively) parses to connected = FALSE with
\* location, mode and interface empty, so connected = TRUE is only returned
\* for a text that has the connected phrase.
C1_FailClosed ==
    st # NoResult =>
        /\ (~HasConnectedPrefix(text) => st = Disconnected)
        /\ (st.connected => HasConnectedPrefix(text))

\* a text that holds the phrase, but not at its start, was parsed as disconnected
C1_Witness ==
    /\ st # NoResult
    /\ Contains(text, "Connected to ")
    /\ Contains(Lower(text), "disconnected")
    /\ ~HasConnectedPrefix(text)
    /\ st = Disconnected

Trimmed(f) == Strip(f) = f

\* C2 as stated: for every text "Connected to X in Y mode ... running on Z"
\* whose X, Y and Z contain none of the markers " in ", " mode",
\* "running on", parse_status returns connected, location exactly X, mode
\* upper-cased Y and interface exactly Z.
C2_AsStated ==
    \A x \in FieldX, y \in FieldY, m \in Middle, z \in FieldZ :
        ( /\ st # NoResult
          /\ text = ConnectedForm(x, y, m, z)
          /\ NoMarker(x) /\ NoMarker(y) /\ NoMarker(z) )
        => st = VpnStatus(TRUE, x, Upper(y), z)

\* C2 amended: the same, for X, Y and Z that carry no leading or trailing
\* whitespace, where the first " in " of the text is the marker that
\* follows X (X is not "in", does not begin with "in " and does not end
\* with " in") and where the text between " mode" and the final
\* "running on " holds no "running on " of its own.
C2_Recovered ==
    \A x \in FieldX, y \in FieldY, m \in Middle, z \in FieldZ :
        ( /\ st # NoResult
          /\ text = ConnectedForm(x, y, m, z)
          /\ NoMarker(x) /\ NoMarker(y) /\ NoMarker(z)
          /\ Trimmed(x) /\ Trimmed(y) /\ Trimmed(z)
          /\ ~Contains("Connected to " \o x \o " in", " in ")
          /\ ~Contains(m, "running on ") )
        => st = VpnStatus(TRUE, x, Upper(y), z)

\* the scenario of the specification, with a lower-case mode to upper-case
C2_Witness ==
    /\ text = "Connected to New York in tun mode, running on tun0"
    /\ st = VpnStatus(TRUE, "New York", "TUN", "tun0")

\* the trimmed text after its 12-character "connected to" prefix
AfterPrefix(txt) ==
    LET t == Strip(txt)
    IN  SubSeq(t, Len("connected to") + 1, Len(t))

\* C18 as stated: for a text with the connected prefix, connected is TRUE,
\* the location is empty when no " in " follows the prefix, the mode is
\* empty when there is no " in " or no " mode" after it, and the interface
\* is empty when there is no "running on ".
C18_AsStated ==
    (st # NoResult /\ HasConnectedPrefix(text)) =>
        /\ st.connected
        /\ (~Contains(AfterPrefix(text), " in ") => st.location = "")
        /\ ((~Contains(AfterPrefix(text), " in ")
               \/ ~Contains(Split1(AfterPrefix(text), " in ")[2], " mode"))
              => st.mode = "")
        /\ (~Contains(Strip(text), "running on ") => st.iface = "")

\* C19 as stated: whatever the letter-casing of the prefix, the location is
\* the one extracted from the same text with the prefix capitalised.
C19_AsStated ==
    (st # NoResult /\ HasConnectedPrefix(text)) =>
        st.location = parse_status("Connected to" \o AfterPrefix(text)).location

(***************************************************************************)
(* Properties of parse_locations                                           *)
(***************************************************************************)
\* index of the first line at or after from that begins with prefix,
\* Len(lines) + 1 when there is none
RECURSIVE FirstLine(_, _, _)
FirstLine(lines, from, prefix) ==
    IF from > Len(lines) THEN Len(lines) + 1
    ELSE IF StartsWith(lines[from], prefix) THEN from
    ELSE FirstLine(lines, from + 1, prefix)

\* the rows of the lines i..last that match the 4-column pattern, in order;
\* with skipIso, lines that begin with "ISO" are left out
RECURSIVE RowsBetween(_, _, _, _)
RowsBetween(lines, i, last, skipIso) ==
    IF i > last THEN <<>>
    ELSE (IF skipIso /\ StartsWith(lines[i], "ISO") THEN <<>>
          ELSE MatchRow(RStrip(lines[i])))
         \o RowsBetween(lines, i + 1, last, skipIso)

\* the rows of the data lines strictly between the header and the first
\* footer that follows it
ExpectedRows(txt, skipIso) ==
    LET lines == SplitLines(txt)
        h == FirstLine(lines, 1, "ISO")
        f == FirstLine(lines, h + 1, "You can connect")
    IN  RowsBetween(lines, h + 1, f - 1, skipIso)

\* C20 as stated: parse_locations returns, in input order, exactly one row
\* per line strictly after the header and before the first following
\* footer that matches the 4-column pattern, and nothing else.
C20_AsStated ==
    st # NoResult => st.rows = ExpectedRows(text, FALSE)

\* C20 amended: the same, for the lines that do not themselves begin with
\* "ISO" (each such line is taken for a header and skipped); a text without
\* a header yields no row.
C20_RowsBetweenHeaderAndFooter ==
    st # NoResult => st.rows = ExpectedRows(text, TRUE)

\* the row before the header was left out, the data row came back with its
\* fields trimmed, and the scan stopped at the footer
C20_Witness ==
    /\ text = "DE  Germany  Berlin  15\nISO  COUNTRY  CITY  PING\n"
              \o "US  United States  New York  7  \nYou can connect to a location\n"
    /\ st = [rows |-> << <<"US", "United States", "New York", 7>> >>]

(***************************************************************************)
(* Properties of the process runners                                       *)
(***************************************************************************)
\* how the process that the call spawned ended
Ran == proc.attempts[1]

\* C14: when the process exits with a non-zero code N, the runner raises
\* CliError carrying the cleaned stderr if that is not empty, else the
\* cleaned stdout if that is not empty, else a generic message that
\* contains N; when it exits with 0 the runner raises nothing and returns
\* the cleaned stdout.  This holds for run, _run_sudo and _run_pkexec.
C14_ExitCode ==
    (st # NoResult /\ ~Ran.timed_out) =>
        IF Ran.rc # 0
        THEN /\ st.raised = "CliError"
             /\ IF clean_output(Ran.err) # <<>> THEN st.value = clean_output(Ran.err)
                ELSE IF clean_output(Ran.out) # <<>> THEN st.value = clean_output(Ran.out)
                ELSE Contains(st.value, StrOfInt(Ran.rc))
        ELSE /\ st.raised = "none"
             /\ st.value = clean_output(Ran.out)

\* the scenario of the specification, through sudo: a non-zero exit with an
\* empty stdout and "License expired" on stderr
C14_Witness ==
    /\ st # NoResult
    /\ proc.runner = "_run_sudo"
    /\ Ran = Attempt(<<>>, LicenseExpired, 2, FALSE)
    /\ st.raised = "CliError"
    /\ st.value = LicenseExpired

\* C15: a process that outlives its timeout makes the runner raise
\* TimeoutExpired, which is not CliError, the error of a non-zero exit; and
\* whether the process timed out or failed, the runner has spawned one
\* process and reports that one's failure, although a second process
\* would have succeeded.
C15_TimeoutDistinct ==
    st # NoResult =>
        /\ Ran.timed_out => (st.raised = "TimeoutExpired" /\ st.raised # "CliError")
        /\ (~Ran.timed_out /\ Ran.rc # 0) => st.raised = "CliError"
        /\ Len(st.spawned) = 1
        /\ (Ran.timed_out \/ Ran.rc # 0) => st.raised # "none"

\* the call timed out where a retry would have returned "OK"
C15_Witness ==
    /\ st # NoResult
    /\ Ran.timed_out
    /\ completed(proc.attempts[2]).raised = "none"
    /\ st.raised = "TimeoutExpired"
    /\ Len(st.spawned) = 1

\* a character that is not printable: a C0 control other than tab and
\* newline, DEL, or a C1 control
NonPrintable(c) ==
    \/ (c < 32 /\ c # 9 /\ c # 10)
    \/ c = 127
    \/ (128 <= c /\ c <= 159)

\* C16 as stated: whatever the process printed, the text a runner returns
\* or carries in its error holds no escape character (ESC, or the 8-bit
\* CSI) and no non-printable character other than newline and tab.
C16_AsStated ==
    st # NoResult =>
        \A i \in 1..Len(st.value) : ~NonPrintable(st.value[i])

(***************************************************************************)
(* Properties of the reconciliation with the CLI                           *)
(***************************************************************************)
\* the title, the tray icon and the two buttons show what the CLI reports
Synced ==
    /\ ui.home_title = TitleOf(StatusOf(vpn).connected)
    /\ ui.tray = StatusOf(vpn).connected
    /\ ui.btn_connect = ~StatusOf(vpn).connected
    /\ ui.btn_disconnect = StatusOf(vpn).connected

\* C11: once the status the CLI reports no longer changes and status fetches
\* no longer fail, the displayed connection state, the tray icon and the
\* buttons eventually equal the reported status and remain equal, also
\* after changes made outside the application.
C11_FollowsCli == <>[]Synced

\* the display shows the connection that was made from a terminal, after
\* the last failing fetch
C11_Witness ==
    /\ budget.limited /\ budget.changes < MaxChanges /\ budget.failures = 0
    /\ vpn = SParis
    /\ Synced
    /\ shown = "fresh"

(***************************************************************************)
(* Properties of the full refresh                                          *)
(***************************************************************************)
\* the main loop runs a queued callback of one of the kinds in this step
Delivers(kinds) ==
    /\ idle # <<>>
    /\ idle' = Tail(idle)
    /\ Head(idle).cb \in kinds

StatusCallbacks == {"poll_ok", "refresh_ok"}

\* the status the callback at the head of the queue carries
Carried == StatusOf(Head(idle).res[1])

\* the widgets and attributes that show the connection status
StatusDisplay(u) ==
    <<u.home_title, u.btn_connect, u.btn_disconnect, u.tray, u.home_sub,
      u.lbl_current_location, u.lbl_country_city, u.lbl_current_ping>>

\* the structures a full refresh fetches, other than the status
Structures(u) ==
    <<u.store_fast, u.store_all, u.excl_mode, u.store_excl, u.settings>>

\* C3 as stated: when a refresh could fetch the status and the fetch of
\* another structure failed, the status display is updated from the status
\* that was fetched.
C3_AsStated ==
    [][(Delivers({"refresh_err"}) /\ Len(Head(idle).res) >= 1)
           => /\ last_connected' = <<Carried.connected>>
              /\ ui'.home_title = TitleOf(Carried.connected)]_vars

\* C4: the callback of a failed refresh leaves the status display, both
\* server lists, the cached location texts, the exclusion mode and list and
\* the settings as they were; it changes the info bar only.
C4_FailedRefreshKeeps ==
    [][Delivers({"refresh_err"})
           => /\ StatusDisplay(ui') = StatusDisplay(ui)
              /\ Structures(ui') = Structures(ui)
              /\ UNCHANGED <<last_fast_text, locations_text_cache, last_connected>>]_vars

\* a refresh has failed while a status and the lists of an earlier refresh
\* were on display, and they still are
C4_Witness ==
    /\ ui.lbl_info = "Error: CliError"
    /\ ui.store_all # <<>>
    /\ ui.home_title = "Connected"
    /\ locations_text_cache # ""

\* the structures as a successful refresh that read the data set g shows them
Snapshots ==
    [g \in Gens |->
        Structures(render_settings(
                       render_exclusions(
                           render_locations(InitialUi, FastOutput(g), AllOutput(g)),
                           ModeOutput(g), ExclOutput(g)),
                       ConfigOutput(g)))]

\* C9: at every moment the server lists, the cached location texts, the
\* exclusions and the settings all come from one and the same refresh (or
\* all are still as built): no state mixes the results of two refreshes.
C9_OneSnapshot ==
    \/ /\ Structures(ui) = Structures(InitialUi)
       /\ last_fast_text = Unset
       /\ locations_text_cache = ""
    \/ \E g \in Gens :
           /\ Structures(ui) = Snapshots[g]
           /\ last_fast_text = FastOutput(g)
           /\ locations_text_cache = AllOutput(g)

\* a successful refresh has just published the data set "b"
C9_Witness ==
    /\ ui.lbl_info = "Done"
    /\ ui.excl_mode = "SELECTIVE"
    /\ ui.settings.cmb_mode = "socks"
    /\ Len(ui.store_fast) = 2
    /\ locations_text_cache = AllOutput("b")

(***************************************************************************)
(* Properties of the status poll and of the threads                        *)
(***************************************************************************)
\* the polls in flight: cli.status calls running, and results not yet run
PollsInFlight ==
    Cardinality({i \in 1..Len(idle) : idle[i].cb \in {"poll_ok", "poll_err"}})
    + BagCardinality([w \in {x \in BagToSet(workers) : x.kind = "poll"} |-> workers[w]])

\* C5: at most one status poll is in flight, _poll_inflight is set exactly
\* while it is, and no step taken while a poll is outstanding starts a
\* thread that calls cli.status or changes the flag or a timer, other than
\* the step that runs the poll's callback: a timer that fires meanwhile
\* changes nothing.
C5_SingleFlight ==
    /\ [](PollsInFlight <= 1 /\ (poll_inflight <=> PollsInFlight = 1))
    /\ [][(poll_inflight /\ ~Delivers({"poll_ok", "poll_err"}))
              => /\ PollsInFlight' = PollsInFlight
                 /\ UNCHANGED <<poll_inflight, timers>>]_vars

\* a poll is running, so that the triggers of both timers are suppressed
C5_Witness ==
    /\ poll_inflight
    /\ \E w \in BagToSet(workers) : w.kind = "poll"
    /\ timers = Timers

\* C6 as stated: no attribute of the application is ever written by a
\* worker thread.
C6_AsStated == off_ui = {}

(***************************************************************************)
(* Properties of the display resolution                                    *)
(***************************************************************************)
\* the indices of the rows of the list whose city is the location, compared
\* case-insensitively after trimming
Matches(loc, locations_text) ==
    LET rows == LocationsOf(locations_text)
    IN  {i \in 1..Len(rows) : Lower(Strip(rows[i][3])) = Lower(Strip(loc))}

Min(S) == CHOOSE i \in S : \A j \in S : i <= j

FirstRow(loc, locations_text) ==
    LocationsOf(locations_text)[Min(Matches(loc, locations_text))]

\* the row the location resolves to: the first match of the fastest list,
\* else the first match of the full list, else none
Resolved(s, fast_text, all_text) ==
    IF ~s.connected \/ s.location = "" THEN <<>>
    ELSE IF Matches(s.location, fast_text) # {} THEN FirstRow(s.location, fast_text)
    ELSE IF Matches(s.location, all_text) # {} THEN FirstRow(s.location, all_text)
    ELSE <<>>

ExpectedCountryCity(row) ==
    IF row = <<>> THEN CountryCityLine(Dash, Dash)
    ELSE CountryCityLine(row[2], row[3])

ExpectedPing(row) == IF row = <<>> THEN Dash ELSE ToString(row[4])

\* C7: whenever a status is rendered, the country/city line shows the first
\* row of the last fetched fastest list whose city is the location (case-
\* insensitively, trimmed), else the first such row of the cached full
\* list, else the unknown sentinel (also when disconnected).
C7_CountryCity ==
    [][Delivers(StatusCallbacks)
           => ui'.lbl_country_city =
                  ExpectedCountryCity(Resolved(Carried, GetAttr(last_fast_text', ""),
                                               locations_text_cache'))]_vars

\* connected to PARIS, which only the full list has, as "Paris"
C7_Witness ==
    /\ last_connected = <<TRUE>>
    /\ last_fast_text = FastOutput("a")
    /\ locations_text_cache = AllOutput("a")
    /\ ui.lbl_country_city = CountryCityLine("France", "Paris")

\* C8 as stated: whenever a status is rendered, the ping shown is that of
\* the row the location resolves to, fastest list first and full list
\* second, and the unknown sentinel only when neither list has the location.
C8_AsStated ==
    [][Delivers(StatusCallbacks)
           => ui'.lbl_current_ping =
                  ExpectedPing(Resolved(Carried, GetAttr(last_fast_text', ""),
                                        locations_text_cache'))]_vars

(***************************************************************************)
(* Properties of overlapping polls and refreshes                           *)
(***************************************************************************)
\* C10: the connection state on display after a status callback has run is
\* the one that callback carries, whether or not a status read later is
\* already on display: the callback delivered last wins.
C10_LastDeliveredWins ==
    [][Delivers(StatusCallbacks)
           => /\ last_connected' = <<Carried.connected>>
              /\ ui'.home_title = TitleOf(Carried.connected)
              /\ ui'.tray = Carried.connected]_vars

\* a status read before the VPN changed has replaced one read after it, and
\* the display now disagrees with the VPN
C10_Witness ==
    /\ shown = "older"
    /\ last_connected # <<StatusOf(vpn).connected>>
    /\ ui.home_title # TitleOf(StatusOf(vpn).connected)

(***************************************************************************)
(* Properties of connecting, disconnecting and quitting                    *)
(***************************************************************************)
\* the connect, disconnect and quit threads that run
Running(kind) == {w \in BagToSet(workers) : w.kind = kind}

\* the connection state the window shows: the title that _render_status
\* has set, unless the info bar announces a connect or a disconnect
ConnectionDisplay ==
    IF StartsWith(ui.lbl_info, "Connecting to ") THEN "Connecting"
    ELSE IF ui.lbl_info = "Disconnecting..." THEN "Disconnecting"
    ELSE ui.home_title

\* C12: while a connect action is in flight the display is in the locally
\* inferred Connecting state, and while a disconnect action is in flight
\* it is in Disconnecting.
C12_AsStated ==
    /\ Running("connect") # {} => ConnectionDisplay = "Connecting"
    /\ Running("disconnect") # {} => ConnectionDisplay = "Disconnecting"

\* the callback _do_quit is queued
QuitQueued == \E i \in 1..Len(idle) : idle[i].cb = "quit_done"

CliArgs(argv) ==
    SubSeq(argv, (CHOOSE i \in 1..Len(argv) : argv[i] = CLI) + 1, Len(argv))

\* the documented arguments of a connect to the handler's location
ConnectArgs(loc) ==
    IF loc = "" THEN <<"connect", "--fastest", "-y">>
    ELSE <<"connect", "-l", loc, "-y">>

\* C17: on every connect path the CLI arguments are exactly
\* connect --fastest -y or connect -l <location> -y with the selected
\* row's location, and a sudo password, when one is used, is on the
\* standard input of sudo and in the argument vector of no spawned process.
C17_AsStated ==
    \A w \in Running("connect") :
        \A i \in 1..Len(Spawned(w.call)) :
            /\ CliArgs(Spawned(w.call)[i].argv) = ConnectArgs(w.loc)
            /\ \A j \in 1..Len(Spawned(w.call)[i].argv) :
                   Spawned(w.call)[i].argv[j] # w.pwd
            /\ w.pwd # None => Spawned(w.call)[i].input = w.pwd \o "\n"

(***************************************************************************)
(* Properties of parse_config, bool_on and _render_exclusions              *)
(***************************************************************************)
\* the lines of a text, each without the whitespace around it
StrippedLines(txt) == [i \in 1..Len(SplitLines(txt)) |-> Strip(SplitLines(txt)[i])]

\* a stripped line that is not blank, not the banner, and has a colon
IsEntryLine(l) ==
    /\ l # ""
    /\ ~StartsWith(l, "Current configuration")
    /\ \E i \in 1..Len(l) : SubSeq(l, i, i) = ":"

FirstColon(l) == CHOOSE i \in 1..Len(l) :
                     /\ SubSeq(l, i, i) = ":"
                     /\ \A j \in 1..(i - 1) : SubSeq(l, j, j) # ":"

KeyOfLine(l) == Lower(Strip(SubSeq(l, 1, FirstColon(l) - 1)))
ValueOfLine(l) == Strip(SubSeq(l, FirstColon(l) + 1, Len(l)))

\* C21: parse_config has one entry for every key of a non-blank, non-banner
\* line with a colon (the text before the first colon, trimmed and
\* lower-cased) and no other entry, and the value of a key is the trimmed
\* text after the first colon of the last line with that key.
C21_ParseConfig ==
    st # NoResult /\ st.fn = "parse_config" =>
        LET ls == SelectSeq(StrippedLines(text), IsEntryLine)
        IN  /\ {st.cfg[i][1] : i \in 1..Len(st.cfg)}
                   = {KeyOfLine(ls[i]) : i \in 1..Len(ls)}
            /\ \A i, j \in 1..Len(st.cfg) : st.cfg[i][1] = st.cfg[j][1] => i = j
            /\ \A i \in 1..Len(ls) :
                   (\A j \in (i + 1)..Len(ls) : KeyOfLine(ls[j]) # KeyOfLine(ls[i]))
                       => DictGet(st.cfg, KeyOfLine(ls[i]), None) = ValueOfLine(ls[i])

\* the key mode occurs twice, in two spellings, and the later value stays
C21_Witness ==
    /\ text = "Mode: TUN\n mode :socks \n"
    /\ st # NoResult /\ st.fn = "parse_config"
    /\ st.cfg = << <<"mode", "socks">> >>

AllSpace(s) == \A i \in 1..Len(s) : SubSeq(s, i, i) \in Whitespace

\* C22: bool_on is true exactly when the value, without the whitespace
\* around it and without regard to case, is on, true, yes or enabled.
C22_BoolOn ==
    st # NoResult /\ st.fn = "bool_on" =>
        (st.on <=> \E i \in 0..Len(text), j \in 0..Len(text) :
                       /\ i <= j
                       /\ AllSpace(SubSeq(text, 1, i))
                       /\ AllSpace(SubSeq(text, j + 1, Len(text)))
                       /\ \E word \in {"on", "true", "yes", "enabled"} :
                              /\ Len(word) = j - i
                              /\ \A k \in 1..Len(word) :
                                     SubSeq(text, i + k, i + k)
                                         \in {SubSeq(word, k, k),
                                              UpperChar(SubSeq(word, k, k))})

C22_Witness ==
    /\ text = " YES\n"
    /\ st # NoResult /\ st.fn = "bool_on"
    /\ st.on

\* the token starts at position i of the text
TokenAt(txt, i, token) ==
    /\ i + Len(token) - 1 <= Len(txt)
    /\ SubSeq(txt, i, i + Len(token) - 1) = token

\* C23: the exclusion mode shown is GENERAL or SELECTIVE: SELECTIVE when
\* that token occurs in the mode output with no GENERAL starting before
\* it, and GENERAL otherwise, also for an output with neither token.
C23_ExclusionMode ==
    st # NoResult /\ st.fn = "mode" =>
        /\ st.u.excl_mode \in {"GENERAL", "SELECTIVE"}
        /\ st.u.excl_mode = "SELECTIVE" <=>
               \E i \in 1..Len(text) :
                   /\ TokenAt(text, i, "SELECTIVE")
                   /\ \A j \in 1..(i - 1) : ~TokenAt(text, j, "GENERAL")

C23_Witness ==
    /\ text = "Mode SELECTIVE (was GENERAL)\n"
    /\ st # NoResult /\ st.fn = "mode"
    /\ st.u.excl_mode = "SELECTIVE"

\* a stripped line that is not blank and not the banner
IsDomainLine(l) == l # "" /\ ~StartsWith(Lower(l), "exclusions for")

\* C24: the exclusion list after _render_exclusions is the non-blank,
\* non-banner lines of the fetched text, trimmed, in their order and with
\* their duplicates; an entry of the list before is in it only if it is
\* such a line.
C24_ListReplaced ==
    st # NoResult /\ st.fn = "list" =>
        /\ st.u.store_excl = SelectSeq(StrippedLines(text), IsDomainLine)
        /\ \A k \in 1..Len(UiBefore.store_excl) :
               (\E i \in 1..Len(st.u.store_excl) :
                    st.u.store_excl[i] = UiBefore.store_excl[k])
                   => \E i \in 1..Len(StrippedLines(text)) :
                          StrippedLines(text)[i] = UiBefore.store_excl[k]

\* a domain listed twice replaces the list before
C24_Witness ==
    /\ text = "a.org\na.org\n"
    /\ st # NoResult /\ st.fn = "list"
    /\ st.u.store_excl = <<"a.org", "a.org">>

(***************************************************************************)
(* Properties of the capability grant.                                     *)
(***************************************************************************)
\* call c of the harness spawned the elevated setcap
Elevated(c) == RanSetcap(c.r)

\* call c spawned neither pkexec nor setcap, changed no capability and
\* returned normally
NoOpCall(c) ==
    /\ ~Elevated(c)
    /\ c.r.caps = c.before
    /\ c.r.raised = "none"

\* call c ran setcap and setcap exited with 0
GrantedCall(c) == Elevated(c) /\ c.r.raised = "none"

\* C25 as stated, without regard to whether the query can be run: a call
\* that finds the needed capabilities is a no-op, every call after a
\* successful grant is a no-op, and CliError means setcap exited non-zero.
C25_AsStated ==
    \A j \in 1..Len(st) :
        /\ GrantedCaps \subseteq st[j].before /\ proc.getcap = "runs"
               => NoOpCall(st[j])
        /\ (\E i \in 1..(j - 1) : GrantedCall(st[i])) => NoOpCall(st[j])
        /\ st[j].r.raised = "CliError" => Elevated(st[j]) /\ st[j].rc # <<0>>

\* C25 (amended): when getcap runs and reports cap_net_admin, the call
\* spawns no pkexec or setcap, changes nothing and returns; on a system
\* where getcap runs, every call after a successful grant is such a no-op;
\* where getcap cannot be run, every call runs pkexec setcap again; the call
\* raises CliError exactly when pkexec setcap ran and exited non-zero.
C25_IdempotentWhenQueried ==
    \A j \in 1..Len(st) :
        /\ proc.getcap = "runs" /\ "cap_net_admin" \in st[j].before
               => NoOpCall(st[j]) /\ st[j].r.spawned = <<<<"getcap", CliPath>>>>
        /\ proc.getcap = "runs" /\ (\E i \in 1..(j - 1) : GrantedCall(st[i]))
               => NoOpCall(st[j])
        /\ proc.getcap = "raises"
               => \/ Elevated(st[j])
                  \/ st[j].r.raised = "FileNotFoundError"
        /\ st[j].r.raised = "CliError" <=> Elevated(st[j]) /\ st[j].rc # <<0>>
        /\ st[j].r.caps = IF st[j].rc = <<0>> THEN GrantedCaps ELSE st[j].before

\* a grant that succeeded, then a call that found the capabilities
C25_Witness ==
    /\ proc.getcap = "runs"
    /\ Len(st) >= 2
    /\ GrantedCall(st[1])
    /\ NoOpCall(st[2])
    /\ st[2].r.spawned = <<<<"getcap", CliPath>>>>

(***************************************************************************)
(* Properties of the lightweight poll.                                     *)
(***************************************************************************)
\* the CLI subcommands a thread of a kind invokes; the license thread
\* raises before it can invoke anything
ThreadCalls(kind) ==
    CASE kind = "poll"    -> {"status"}
      [] kind = "refresh" -> {RefreshCalls[i] : i \in 1..Len(RefreshCalls)}
      [] kind = "license" -> IF "ok" \in LicenseOutcomes THEN {"license"} ELSE {}

\* the poll threads among the threads ws
PollThreads(ws) == {w \in BagToSet(ws) : w.kind = "poll"}

\* a step of a lightweight poll: the timer handler starts the thread, the
\* thread fetches the status or queues its callback, or the main loop runs
\* the _ok or _err callback of a poll
PollStep ==
    /\ vpn' = vpn
    /\ \/ PollThreads(workers') # PollThreads(workers)
       \/ /\ idle # <<>>
          /\ Head(idle).cb \in {"poll_ok", "poll_err"}
          /\ idle' = Tail(idle)

\* C26: no step of a lightweight poll, successful or failed, starts a thread
\* that invokes anything but `status`, and none changes the fastest or the
\* full server list, the cached location texts, the exclusion mode or list,
\* or the settings controls.
C26_PollFrame ==
    [][PollStep =>
          /\ \A w \in BagToSet(workers') \ BagToSet(workers) :
                 /\ w.kind \in {"poll", "license"}
                 /\ ThreadCalls(w.kind) \subseteq {"status"}
          /\ Structures(ui') = Structures(ui)
          /\ last_fast_text' = last_fast_text
          /\ locations_text_cache' = locations_text_cache]_vars

\* the result of a poll is about to be rendered over a window whose lists a
\* refresh has filled and which shows the other connection state
C26_Witness ==
    /\ idle # <<>>
    /\ Head(idle).cb = "poll_ok"
    /\ StatusOf(Head(idle).res[1]).connected
    /\ last_connected = <<FALSE>>
    /\ ui.store_fast # <<>>
    /\ ui.store_all # <<>>
    /\ ui.store_excl # <<>>
    /\ locations_text_cache # ""

(***************************************************************************)
(* Properties of failed and cancelled actions.                             *)
(***************************************************************************)
\* the main loop runs the err callback of a user action whose CLI
\* invocation exited non-zero or timed out, and nobody is quitting
ActionFailureDelivered ==
    /\ idle # <<>>
    /\ Head(idle).cb \in {"action_err", "row_err"}
    /\ Head(idle).e \in {"CliError", "TimeoutExpired"}
    /\ idle' = Tail(idle)
    /\ ~quitting /\ gtk_main = "running" /\ dialog' = dialog

\* what the window says about the connection
ConnectionShown(u) ==
    <<u.home_title, u.home_sub, u.btn_connect, u.btn_disconnect, u.tray,
      u.lbl_current_location, u.lbl_country_city, u.lbl_current_ping>>

\* C27: when the CLI invocation of a user action fails, the err callback
\* shows the failure in the info bar as an error, starts no thread (no
\* retry, no refresh), leaves the displayed connection state, the lists and
\* the cached texts as they were, and the application keeps running.
C27_AsStated ==
    [][ActionFailureDelivered =>
          /\ ui'.lbl_info = "Error: " \o Head(idle).e
          /\ ui'.info_err
          /\ workers' = workers
          /\ ConnectionShown(ui') = ConnectionShown(ui)
          /\ Structures(ui') = Structures(ui)
          /\ last_fast_text' = last_fast_text
          /\ locations_text_cache' = locations_text_cache
          /\ gtk_main' = "running"]_vars

\* the user presses Cancel in the password dialog of connect_selected, of
\* on_row_activated or of disconnect, or presses OK on a blank entry
CancelledPrompt ==
    /\ dialog.for \in {"connect_selected", "row", "disconnect"}
    /\ gtk_main = "running"
    /\ \E a \in Answers :
           /\ a.resp = "CANCEL" \/ AllSpace(a.entry)
           /\ AnswerDialog(a)

\* what a cancelled prompt may not touch: threads (and with them every
\* process and every refresh), queued callbacks, timers, the attributes of
\* App, the VPN, and the main loop
CancelKeeps ==
    /\ dialog' = NoDialog
    /\ workers' = workers
    /\ idle' = idle
    /\ timers' = timers
    /\ gtk_main' = gtk_main
    /\ UNCHANGED <<worldVars, attrVars, licenseVars, off_ui, shown>>

\* C28 as stated: a cancelled prompt changes no application state at all.
C28_AsStated ==
    [][CancelledPrompt => CancelKeeps /\ ui' = ui]_vars

\* C28 (amended): a cancelled or blank prompt starts no thread, hence no
\* CLI or sudo process and no refresh, and changes nothing but the info
\* bar: connect_selected and disconnect show "Cancelled" there, flagged as
\* an error; on_row_activated shows nothing.
C28_CancelShowsMessage ==
    [][CancelledPrompt =>
          /\ CancelKeeps
          /\ ui' = IF dialog.for = "row" THEN ui
                   ELSE info(ui, "Cancelled", TRUE)]_vars

\* a prompt has been cancelled in a window whose lists are filled: nothing
\* runs, nothing is queued, and the info bar says so
C28_Witness ==
    /\ dialog = NoDialog
    /\ ui.lbl_info = "Cancelled"
    /\ ui.info_err
    /\ ui.store_all # <<>>
    /\ workers = EmptyBag
    /\ idle = <<>>

(***************************************************************************)
(* Properties of the disconnect.                                           *)
(***************************************************************************)
\* the threads the Disconnect button, the tray's Disconnect item and the
\* tray's Exit item have dispatched
Disconnecting == Running("disconnect") \cup Running("quit")

\* C29: every disconnect thread the GUI dispatches, with or without a
\* password, runs `adguardvpn-cli disconnect` before it queues its
\* completion callback, so no completion callback of a disconnect reports
\* that nothing was run.
C29_AsStated ==
    /\ \A w \in Disconnecting :
           /\ Spawned(w.call) # <<>>
           /\ CliArgs(Spawned(w.call)[1].argv) = <<"disconnect">>
    /\ \A i \in 1..Len(idle) :
           idle[i].cb \in ActionCallbacks => idle[i].e # "AttributeError"

(***************************************************************************)
(* Properties of quit-from-tray.                                           *)
(***************************************************************************)
\* the number of threads of a kind among ws
CountOf(ws, kind) ==
    BagCardinality([w \in {x \in BagToSet(ws) : x.kind = kind} |-> ws[w]])

\* final disconnects under way in a state: the password dialog of
\* quit_from_tray, its thread, and the queued _do_quit
QuitDispatches(d, ws, q) ==
    (IF d.for = "quit" THEN 1 ELSE 0)
    + CountOf(ws, "quit")
    + Cardinality({i \in 1..Len(q) : q[i].cb = "quit_done"})

\* C30: quit-from-tray dispatches at most one final disconnect and at most
\* one exit request however often it is triggered; once _quitting is set it
\* stays set, the number of poll threads never grows and _poll_inflight is
\* never set again; and a tick of a poll timer while quitting unregisters
\* that timer.
C30_QuitOnce ==
    /\ [](QuitDispatches(dialog, workers, idle) <= 1)
    /\ [](QuitDispatches(dialog, workers, idle) = 1 => quitting)
    /\ [][quitting =>
              /\ quitting'
              /\ QuitDispatches(dialog', workers', idle')
                     <= QuitDispatches(dialog, workers, idle)
              /\ CountOf(workers', "poll") <= CountOf(workers, "poll")
              /\ poll_inflight' => poll_inflight
              /\ timers' \subseteq timers
              /\ \A t \in Timers : poll_status(t) => t \notin timers']_vars

\* both poll timers have unregistered themselves while the final
\* disconnect is still running
C30_Witness ==
    /\ quitting
    /\ gtk_main = "running"
    /\ Running("quit") # {}
    /\ timers = {}
    /\ Running("poll") = {}

(***************************************************************************)
(* Properties of polling on its own.                                       *)
(***************************************************************************)
\* a tick of a poll timer
Tick == \E t \in Timers : poll_status(t)

\* C31: a poll that has been started always completes and its completion
\* clears _poll_inflight, whether the status fetch succeeded, failed or
\* timed out and whether rendering raised; whenever the flag is clear, a
\* tick starts a new poll.
C31_PollsGoOn ==
    /\ (poll_inflight ~> ~poll_inflight)
    /\ [](PollsInFlight = 0 => ~poll_inflight)
    /\ [][Delivers({"poll_ok", "poll_err"}) => ~poll_inflight']_vars
    /\ [][Tick /\ ~poll_inflight /\ ~quitting
              => poll_inflight' /\ PollsInFlight' = 1]_vars

\* the status fetch of the poll in flight has timed out and its err
\* callback is about to run
C31_Witness ==
    /\ poll_inflight
    /\ idle # <<>>
    /\ Head(idle).cb = "poll_err"
    /\ Head(idle).e = "TimeoutExpired"

(***************************************************************************)
(* Properties of the connection display.                                   *)
(***************************************************************************)
\* what shows the connection state: tray icon, title, the two buttons,
\* and the remembered flag
ConnectionWidgets ==
    <<ui.tray, ui.home_title, ui.btn_connect, ui.btn_disconnect, last_connected>>

C33_AsStated ==
    [][Delivers({"row_ok", "row_err"}) /\ ~quitting /\ gtk_main = "running"
           => /\ gtk_main' = "running"
              /\ IF Head(idle).cb = "row_ok"
                 THEN CountOf(workers', "refresh") + InFlight
                          > CountOf(workers, "refresh")
                 ELSE /\ ui'.info_err
                      /\ StartsWith(ui'.lbl_info, "Error: ")]_vars

\* the main loop runs a callback of one of the kinds
Runs(kinds) == Deliver /\ Head(idle).cb \in kinds

\* a command of _apply is issued and fails
ApplyCommandFails ==
    \E w \in BagToSet(workers), o \in PollOutcomes \ {"ok"} : ApplyWorker(w, o)

\* C34, the part on the ten commands: they are issued in the order of
\* SetCommands, the first two with the mode and the DNS entry of the
\* moment Apply was pressed (`default` for an empty entry); the list of
\* issued commands only grows, by the one thread, which has seen every
\* command before succeed; a failing command ends the thread, and its
\* callback starts no thread
C34_Sequential ==
    /\ [](\A k \in 1..Len(proc) : proc[k][1] = SetCommands[k])
    /\ [](Len(proc) >= 1 => proc[1][2] = Or(st.cmb_mode, "tun"))
    /\ [](Len(proc) >= 2 =>
            proc[2][2] = Or(Strip(st.entry_dns), "default"))
    /\ [][proc' # proc =>
            /\ Len(proc') = Len(proc) + 1
            /\ SubSeq(proc', 1, Len(proc)) = proc
            /\ \E w \in Running("apply") : w.n = Len(proc)]_vars
    /\ [][ApplyCommandFails =>
            /\ CountOf(workers', "apply") = 0
            /\ Len(idle') = Len(idle) + 1
            /\ idle'[Len(idle')].cb = "apply_err"]_vars
    /\ [][Runs({"apply_err"}) => workers' = workers /\ idle' = Tail(idle)]_vars

C34_Witness ==
    /\ Len(proc) = 3
    /\ CountOf(workers, "apply") = 0
    /\ idle = <<>>
    /\ StartsWith(ui.lbl_settings_out, "Error: ")

\* C34: the ten config commands are issued in the fixed order and stop at
\* the first failure, which triggers no refresh; after ten successes
\* exactly one refresh follows: the ok callback starts one thread of
\* refresh_all and is not run again
C34_AsStated ==
    /\ C34_Sequential
    /\ [][Runs({"apply_ok"}) =>
            /\ CountOf(workers', "refresh") = CountOf(workers, "refresh") + 1
            /\ idle' = Tail(idle)]_vars

\* C35: every command of _apply is issued with the value its control held
\* when Apply was pressed, whatever has re-rendered the controls since
C35_AsStated ==
    \A k \in 1..Len(proc) :
        proc[k][2] = apply_value(k, Or(st.cmb_mode, "tun"), Strip(st.entry_dns), st)

\* the values that mean "on"
OnWords == {"on", "true", "yes", "enabled"}

\* the snapshot cfg has the setting of key k switched on
SettingOn(cfg, k) ==
    /\ \E i \in 1..Len(cfg) : cfg[i][1] = Lower(k)
    /\ Lower(DictGet(cfg, Lower(k), "")) \in OnWords

\* the switches i of BoolSettings show what the snapshot says
ShownAsSet(is) ==
    st # NoResult =>
        \A i \in is :
            st.u.settings[BoolSettings[i].sw] = SettingOn(parse_config(text), BoolSettings[i].key)

\* C36: each of the six boolean switches is on exactly when the snapshot
\* has its key with one of the values on/true/yes/enabled in any case, and
\* off when the key is absent
C36_AsStated == ShownAsSet(1..Len(BoolSettings))

\* the three switches set through bool_on
C36_BoolOnSwitches == ShownAsSet(1..3)

\* a step in which _kick_license_refresh starts a fetch
StartsFetch == CountOf(workers', "license") > CountOf(workers, "license")

\* a license fetch has ended: its label callback is queued or has set the
\* label, which is empty until then
FetchedBefore ==
    \/ ui.lbl_license # ""
    \/ \E i \in 1..Len(idle) : idle[i].cb = "license_label"

\* C37, one fetch at a time: at most one license thread runs, and the flag
\* is up while it does
C37_OneInFlight ==
    /\ CountOf(workers, "license") <= 1
    /\ (CountOf(workers, "license") = 1 => license_fetch_inflight)

\* C37: at most one license fetch is in flight, and two fetches start at
\* least LicenseTtl seconds apart: while the clock still reads StartTime, no
\* fetch starts after another one has ended
C37_AsStated ==
    /\ []C37_OneInFlight
    /\ [][StartsFetch /\ now' - StartTime < LicenseTtl => ~FetchedBefore]_vars

\* C38: no total of the daily table ever decreases; a tick that cannot read
\* the counters changes nothing; the first readable tick only sets the
\* baseline; every later readable tick moves the baseline to the sample and
\* adds max(0, sample - baseline), so 0 after a counter reset, to today's
\* rx and tx, and leaves the other days alone
C38_Accounting ==
    /\ [][\A d \in DOMAIN proc :
            /\ d \in DOMAIN proc'
            /\ proc'[d].rx >= proc[d].rx
            /\ proc'[d].tx >= proc[d].tx]_vars
    /\ [][TickStats /\ ~budget.readable => st' = st /\ proc' = proc]_vars
    /\ [][TickStats /\ budget.readable /\ ~st.sampled =>
            /\ proc' = proc
            /\ st' = [sampled |-> TRUE, last_rx |-> budget.rx, last_tx |-> budget.tx]]_vars
    /\ [][TickStats /\ budget.readable /\ st.sampled =>
            /\ st' = [sampled |-> TRUE, last_rx |-> budget.rx, last_tx |-> budget.tx]
            /\ DayTotals(proc', text).rx
                 = DayTotals(proc, text).rx + Max0(budget.rx - st.last_rx)
            /\ DayTotals(proc', text).tx
                 = DayTotals(proc, text).tx + Max0(budget.tx - st.last_tx)
            /\ \A d \in DOMAIN proc' \ {text} : d \in DOMAIN proc /\ proc'[d] = proc[d]]_vars

\* a counter reset has been ticked over: today's total is beyond what the
\* counter can reach, and the baseline is below it
C38_Witness ==
    /\ st.sampled
    /\ DayTotals(proc, text).rx = MaxBytes + 1
    /\ st.last_rx < MaxBytes
    /\ budget.readable
    /\ budget.rx < st.last_rx

\* C39: the stored option is on only with a non-empty stored password, and
\* while it is off the stored password is the empty string
C39_NoPasswordWhileOff ==
    /\ st.config.sudo_password_enabled => st.config.sudo_password # ""
    /\ ~st.config.sudo_password_enabled => st.config.sudo_password = ""

\* the switch has been turned off with a password in the entry, after the
\* password had been stored, and Apply has run
C39_Witness ==
    /\ text = "applied"
    /\ ~st.sw_sudo_pwd
    /\ Strip(st.ent_sudo_pwd) # ""
    /\ ~st.config.sudo_password_enabled
    /\ st.config.sudo_password = ""

====
